---------------------------- MODULE Spec2Model ----------------------------
(***************************************************************************)
(* Weierstrass form of a toric elliptic curve                              *)
(* (src/src/sage/schemes/toric/weierstrass.py).                            *)
(*                                                                         *)
(* The module's functions are pure; the state machine below runs one call  *)
(* of an entry point at a time, one action per function body or call       *)
(* stage, and starts a new call when the previous one has returned or      *)
(* raised.                                                                 *)
(*                                                                         *)
(* Polynomials live in R = (Z/ring)[x, y, z, t].  A polynomial is a        *)
(* function from exponent tuples <<ex, ey, ez, et>> to its non-zero        *)
(* coefficients in 1..ring-1; the zero polynomial is the empty function.   *)
(* A variable is its index in R.gens(): x = 1, y = 2, z = 3, t = 4.        *)
(***************************************************************************)
EXTENDS Integers, Sequences, FiniteSets, TLC

VARIABLES
    ring,     \* modulus of the coefficient ring Z/ring, fixed for a behaviour
    call,     \* the running call: entry point and its arguments
    pc,       \* position inside the call
    frame,    \* local values of the running call
    outcome   \* what the call returned or raised ("none" while running)

vars == <<ring, call, pc, frame, outcome>>

\* Python's None where a variable is expected (z = None, line 658).  A
\* variables argument of None is the one-element list NoVars.
None == 0
NoVars == <<None>>

----------------------------------------------------------------------------
(* The coefficient ring Z/ring and the polynomial ring over it.            *)

\* Rings of characteristic not 2 or 3 in which 2 and 3 are units: the field
\* Z/5 and the non-reduced ring Z/25 (5 * 5 = 0).
Rings == {5, 25}

IsDomain == \A a, b \in 1..(ring - 1) : (a * b) % ring # 0

Gens == <<"x", "y", "z", "t">>
NG == Len(Gens)

\* F(k): the image of the integer k in the coefficient ring.
F(k) == k % ring

\* Exact division of a ring element by a unit of the ring.
Inv(k) == CHOOSE i \in 1..(ring - 1) : (i * F(k)) % ring = 1
Frac(n, d) == (F(n) * Inv(d)) % ring

Zero == << >>
Coef(p, e) == IF e \in DOMAIN p THEN p[e] ELSE 0
E0 == [i \in 1..NG |-> 0]
Const(k) == IF F(k) = 0 THEN Zero ELSE (E0 :> F(k))
One == Const(1)
Mono(e) == e :> 1
EAdd(a, b) == [i \in 1..NG |-> a[i] + b[i]]
ESub(a, b) == [i \in 1..NG |-> a[i] - b[i]]
EDivides(m, e) == \A i \in 1..NG : m[i] <= e[i]

PAdd(p, q) ==
    LET D == DOMAIN p \cup DOMAIN q
        s(e) == (Coef(p, e) + Coef(q, e)) % ring
    IN  [e \in {d \in D : s(d) # 0} |-> s(e)]

PScale(k, p) ==
    [e \in {d \in DOMAIN p : (F(k) * p[d]) % ring # 0} |-> (F(k) * p[e]) % ring]

PNeg(p) == PScale(-1, p)
PSub(p, q) == PAdd(p, PNeg(q))

RECURSIVE SumOver(_, _, _, _)
SumOver(S, p, q, e) ==
    IF S = {} THEN 0
    ELSE LET a == CHOOSE a \in S : TRUE
         IN  (p[a] * q[ESub(e, a)] + SumOver(S \ {a}, p, q, e)) % ring

PMul(p, q) ==
    LET D == {EAdd(a, b) : a \in DOMAIN p, b \in DOMAIN q}
        c(e) == SumOver({a \in DOMAIN p : ESub(e, a) \in DOMAIN q}, p, q, e)
    IN  [e \in {d \in D : c(d) # 0} |-> c(e)]

RECURSIVE PPow(_, _)
PPow(p, n) == IF n = 0 THEN One ELSE PMul(p, PPow(p, n - 1))

\* p // m for a monomial m: the terms of p that m divides, divided by m.
PFloorDivMono(p, m) ==
    LET D == {e \in DOMAIN p : EDivides(m, e)}
    IN  [e \in {ESub(d, m) : d \in D} |-> p[EAdd(e, m)]]

\* The polynomial with support D and the coefficients of p there.
Restrict(p, D) == [e \in D |-> p[e]]

----------------------------------------------------------------------------
(* Helpers on exponents and variable lists.                                *)

\* e restricted to the positions of the variables V, in V's order.
Proj(e, V) == [i \in 1..Len(V) |-> e[V[i]]]

\* The exponent tuple of prod(V[i]^v[i]).
Lift(v, V) ==
    [g \in 1..NG |-> IF \E i \in 1..Len(V) : V[i] = g
                     THEN v[CHOOSE i \in 1..Len(V) : V[i] = g] ELSE 0]

\* The exponent tuple of the single variable g to the power n.
XPow(g, n) == [i \in 1..NG |-> IF i = g THEN n ELSE 0]

RECURSIVE SeqOfSet(_)
SeqOfSet(S) ==
    IF S = {} THEN << >>
    ELSE LET m == CHOOSE m \in S : \A o \in S : m <= o
         IN  <<m>> \o SeqOfSet(S \ {m})

\* polynomial.variables(): the generators occurring in the polynomial, in
\* the order of R.gens().
PolyVariables(p) == SeqOfSet({g \in 1..NG : \E e \in DOMAIN p : e[g] > 0})

RECURSIVE SumSeq(_)
SumSeq(s) == IF s = << >> THEN 0 ELSE Head(s) + SumSeq(Tail(s))

----------------------------------------------------------------------------
(* Newton_polytope_vars_coeffs, lines 284-292.                             *)

RECURSIVE NPVCLoop(_, _, _)
NPVCLoop(terms, polynomial, variables) ==
    IF terms = {} THEN << >>
    ELSE LET e == CHOOSE e \in terms : TRUE
             result == NPVCLoop(terms \ {e}, polynomial, variables)
             v == Proj(e, variables)
             m_red == ESub(e, Lift(v, variables))
             old == IF v \in DOMAIN result THEN result[v] ELSE Zero
             new == PAdd(old, m_red :> polynomial[e])
         IN  [k \in DOMAIN result \cup {v} |-> IF k = v THEN new ELSE result[k]]

\* A fault of line 291: the entry overwritten instead of added to.
Newton_polytope_vars_coeffs_overwriting(polynomial, variables) ==
    [v \in {Proj(e, variables) : e \in DOMAIN polynomial} |->
        LET e == CHOOSE e \in DOMAIN polynomial : Proj(e, variables) = v
        IN  ESub(e, Lift(v, variables)) :> polynomial[e]]

Newton_polytope_vars_coeffs(polynomial, variables) ==
    NPVCLoop(DOMAIN polynomial, polynomial, variables)

----------------------------------------------------------------------------
(* _check_homogeneity, lines 546-558.  The result is "ok" or the error.    *)

NotHomogeneous(weights) == [kind |-> "NotHomogeneous", weights |-> weights]
Ok == [kind |-> "ok", weights |-> << >>]

WeightOf(e, variables, weights) ==
    SumSeq([i \in 1..Len(weights) |-> e[variables[i]] * weights[i]])

\* The loop of lines 551-558 over the exponents still to visit; seen is
\* FALSE while total_weight is None.
RECURSIVE HomogeneityLoop(_, _, _, _, _)
HomogeneityLoop(exps, variables, weights, seen, total_weight) ==
    IF exps = {} THEN Ok
    ELSE LET e == CHOOSE e \in exps : TRUE
             weight_e == WeightOf(e, variables, weights)
         IN  IF ~seen
             THEN HomogeneityLoop(exps \ {e}, variables, weights, TRUE, weight_e)
             ELSE IF weight_e # total_weight
                  THEN NotHomogeneous(weights)
                  ELSE HomogeneityLoop(exps \ {e}, variables, weights, TRUE,
                                       total_weight)

\* Line 550 resets total_weight to None before the loop, so the argument
\* total_weight (given, total_weight) is never read.
_check_homogeneity(polynomial, variables, weights, given, total_weight) ==
    HomogeneityLoop(DOMAIN polynomial, variables, weights, FALSE, 0)

----------------------------------------------------------------------------
(* _extract_coefficients, lines 593-609.                                   *)

\* index(monomial), lines 596-600.
Index(monomial, variables) == Proj(monomial, variables)

\* coeffs after the loop of lines 602-604: index -> sum of the terms c*m.
ExtractDict(polynomial, variables) ==
    LET keys == {Index(m, variables) : m \in DOMAIN polynomial}
    IN  [i \in keys |->
            Restrict(polynomial,
                     {m \in DOMAIN polynomial : Index(m, variables) = i})]

\* Line 605: pop each requested monomial's entry in request order.
RECURSIVE ExtractPop(_, _, _)
ExtractPop(coeffs, monomials, variables) ==
    IF monomials = << >> THEN [result |-> << >>, coeffs |-> coeffs]
    ELSE LET m == Head(monomials)
             i == Index(m, variables)
             entry == IF i \in DOMAIN coeffs THEN coeffs[i] ELSE Zero
             left == [k \in DOMAIN coeffs \ {i} |-> coeffs[k]]
             rest == ExtractPop(left, Tail(monomials), variables)
         IN  [result |-> <<PFloorDivMono(entry, m)>> \o rest.result,
              coeffs |-> rest.coeffs]

\* A fault of lines 606-608: the leftover entries are not looked at.
_extract_coefficients_unchecked(polynomial, monomials, variables) ==
    LET r == ExtractPop(ExtractDict(polynomial, variables), monomials, variables)
    IN  [ok |-> TRUE, result |-> r.result, coeffs |-> r.coeffs]

\* The result: ok is FALSE when line 607 raises, and coeffs is then the
\* dictionary the error message lists.
_extract_coefficients(polynomial, monomials, variables) ==
    LET r == ExtractPop(ExtractDict(polynomial, variables), monomials, variables)
    IN  [ok |-> DOMAIN r.coeffs = {}, result |-> r.result, coeffs |-> r.coeffs]

----------------------------------------------------------------------------
(* The variable checks of the three families.  Each returns the error (Ok  *)
(* when it returns normally), the variables it returns, and the weight     *)
(* vectors it handed to _check_homogeneity, in call order.                 *)

WrongVariableCount == [kind |-> "TooManyOrFewVariables", weights |-> << >>]

\* _check_polynomial_P2, lines 651-661.
_check_polynomial_P2(cubic, variables) ==
    LET vs == IF variables = NoVars THEN PolyVariables(cubic) ELSE variables
    IN  IF Len(vs) = 3
        THEN [error |-> _check_homogeneity(cubic, vs, <<1, 1, 1>>, TRUE, 3),
              variables |-> vs,
              checks |-> << <<1, 1, 1>> >>]
        ELSE IF Len(vs) = 2
        THEN [error |-> Ok, variables |-> <<vs[1], vs[2], None>>,
              checks |-> << >>]
        ELSE [error |-> WrongVariableCount, variables |-> vs, checks |-> << >>]

\* lines 808-810 and 993-995: two checks in a row, the second only when the
\* first returns.
TwoChecks(polynomial, vs, w1, t1, w2, t2) ==
    LET first == _check_homogeneity(polynomial, vs, w1, TRUE, t1)
    IN  IF first # Ok
        THEN [error |-> first, variables |-> vs, checks |-> <<w1>>]
        ELSE [error |-> _check_homogeneity(polynomial, vs, w2, TRUE, t2),
              variables |-> vs, checks |-> <<w1, w2>>]

\* A fault of line 812: the two variables put in the first two positions.
_check_polynomial_P1xP1_misplaced(biquadric, variables) ==
    LET vs == IF variables = NoVars THEN PolyVariables(biquadric) ELSE variables
    IN  IF Len(vs) = 4
        THEN TwoChecks(biquadric, vs, <<1, 1, 0, 0>>, 2, <<0, 0, 1, 1>>, 2)
        ELSE IF Len(vs) = 2
        THEN [error |-> Ok, variables |-> <<vs[1], vs[2], None, None>>,
              checks |-> << >>]
        ELSE [error |-> WrongVariableCount, variables |-> vs, checks |-> << >>]

\* _check_polynomial_P1xP1, lines 806-815.
_check_polynomial_P1xP1(biquadric, variables) ==
    LET vs == IF variables = NoVars THEN PolyVariables(biquadric) ELSE variables
    IN  IF Len(vs) = 4
        THEN TwoChecks(biquadric, vs, <<1, 1, 0, 0>>, 2, <<0, 0, 1, 1>>, 2)
        ELSE IF Len(vs) = 2
        THEN [error |-> Ok, variables |-> <<vs[1], None, vs[2], None>>,
              checks |-> << >>]
        ELSE [error |-> WrongVariableCount, variables |-> vs, checks |-> << >>]

\* A fault of line 996: three variables accepted like two.
_check_polynomial_P2_112_lenient(polynomial, variables) ==
    LET vs == IF variables = NoVars THEN PolyVariables(polynomial) ELSE variables
    IN  IF Len(vs) = 4
        THEN TwoChecks(polynomial, vs, <<1, 0, 1, -2>>, 0, <<0, 1, 0, 1>>, 2)
        ELSE IF Len(vs) \in {2, 3}
        THEN [error |-> Ok, variables |-> <<vs[1], vs[2], None, None>>,
              checks |-> << >>]
        ELSE [error |-> WrongVariableCount, variables |-> vs, checks |-> << >>]

\* _check_polynomial_P2_112, lines 989-1000.
_check_polynomial_P2_112(polynomial, variables) ==
    LET vs == IF variables = NoVars THEN PolyVariables(polynomial) ELSE variables
    IN  IF Len(vs) = 4
        THEN TwoChecks(polynomial, vs, <<1, 0, 1, -2>>, 0, <<0, 1, 0, 1>>, 2)
        ELSE IF Len(vs) = 2
        THEN [error |-> Ok, variables |-> <<vs[1], vs[2], None, None>>,
              checks |-> << >>]
        ELSE [error |-> WrongVariableCount, variables |-> vs, checks |-> << >>]

----------------------------------------------------------------------------
(* _partial_discriminant, lines 854-861.                                   *)

\* A fault of line 861: c[1] instead of c[1]**2.
_partial_discriminant_unsquared(quadric, y0, y1) ==
    LET monomials == IF y1 = None
                     THEN <<E0, XPow(y0, 1), XPow(y0, 2)>>
                     ELSE <<XPow(y1, 2), EAdd(XPow(y0, 1), XPow(y1, 1)),
                            XPow(y0, 2)>>
        variables == IF y1 = None THEN <<y0>> ELSE <<y0, y1>>
        c == _extract_coefficients(quadric, monomials, variables)
    IN  [ok |-> c.ok, coeffs |-> c.coeffs, c |-> c.result,
         delta |-> IF c.ok
                   THEN PSub(c.result[2],
                             PScale(4, PMul(c.result[1], c.result[3])))
                   ELSE Zero]

_partial_discriminant(quadric, y0, y1) ==
    LET monomials == IF y1 = None
                     THEN <<E0, XPow(y0, 1), XPow(y0, 2)>>
                     ELSE <<XPow(y1, 2), EAdd(XPow(y0, 1), XPow(y1, 1)),
                            XPow(y0, 2)>>
        variables == IF y1 = None THEN <<y0>> ELSE <<y0, y1>>
        c == _extract_coefficients(quadric, monomials, variables)
    IN  [ok |-> c.ok, coeffs |-> c.coeffs, c |-> c.result,
         delta |-> IF c.ok
                   THEN PSub(PMul(c.result[2], c.result[2]),
                             PScale(4, PMul(c.result[1], c.result[3])))
                   ELSE Zero]

----------------------------------------------------------------------------
(* invariant_theory.binary_quartic and its two invariants: the quartic     *)
(* e0 x0^4 + 4 e1 x0^3 x1 + 6 e2 x0^2 x1^2 + 4 e3 x0 x1^3 + e4 x1^4, with  *)
(* x1 = 1 when x1 is None.                                                 *)

QuarticMonomials(x0, x1) ==
    IF x1 = None
    THEN <<XPow(x0, 4), XPow(x0, 3), XPow(x0, 2), XPow(x0, 1), E0>>
    ELSE <<XPow(x0, 4), EAdd(XPow(x0, 3), XPow(x1, 1)),
           EAdd(XPow(x0, 2), XPow(x1, 2)), EAdd(XPow(x0, 1), XPow(x1, 3)),
           XPow(x1, 4)>>

QuarticI(e) ==
    PAdd(PSub(PMul(e[1], e[5]), PScale(4, PMul(e[2], e[4]))),
         PScale(3, PMul(e[3], e[3])))

QuarticJ(e) ==
    PSub(PAdd(PSub(PSub(PMul(e[1], PMul(e[3], e[5])),
                        PMul(e[1], PMul(e[4], e[4]))),
                   PMul(e[2], PMul(e[2], e[5]))),
              PScale(2, PMul(e[2], PMul(e[3], e[4])))),
         PMul(e[3], PMul(e[3], e[3])))

binary_quartic(delta, x0, x1) ==
    LET variables == IF x1 = None THEN <<x0>> ELSE <<x0, x1>>
        a == _extract_coefficients(delta, QuarticMonomials(x0, x1), variables)
        e == <<a.result[1], PScale(Frac(1, 4), a.result[2]),
               PScale(Frac(1, 6), a.result[3]),
               PScale(Frac(1, 4), a.result[4]), a.result[5]>>
    IN  [ok |-> a.ok, coeffs |-> a.coeffs, e |-> e,
         I |-> QuarticI(e), J |-> QuarticJ(e)]

\* A fault of lines 946 and 1080: the division by 4 left out.
QuarticWeierstrassUndivided(Q) == <<PNeg(Q.I), PNeg(Q.J)>>

\* lines 944-946 and 1078-1080: g2 = I, g3 = J and the returned pair.
QuarticWeierstrass(Q) == <<PScale(Frac(-1, 4), Q.I), PScale(Frac(-1, 4), Q.J)>>

----------------------------------------------------------------------------
(* invariant_theory.ternary_cubic and its invariants S and T.  The pair    *)
(* (27 S, -27/4 T) of the general cubic is the expected value of the test  *)
(* of lines 696-755: each row is <<numerator, denominator, exponents of    *)
(* a30, a21, a12, a03, a20, a11, a02, a10, a01, a00>>.                     *)

CubicFTerms ==
    << <<-1, 48, <<0, 0, 0, 0, 0, 4, 0, 0, 0, 0>>>>,
       <<1, 6, <<0, 0, 0, 0, 1, 2, 1, 0, 0, 0>>>>,
       <<-1, 3, <<0, 0, 0, 0, 2, 0, 2, 0, 0, 0>>>>,
       <<-1, 2, <<0, 0, 0, 1, 1, 1, 0, 1, 0, 0>>>>,
       <<1, 6, <<0, 0, 1, 0, 0, 2, 0, 1, 0, 0>>>>,
       <<1, 3, <<0, 0, 1, 0, 1, 0, 1, 1, 0, 0>>>>,
       <<-1, 2, <<0, 1, 0, 0, 0, 1, 1, 1, 0, 0>>>>,
       <<1, 1, <<1, 0, 0, 0, 0, 0, 2, 1, 0, 0>>>>,
       <<-1, 3, <<0, 0, 2, 0, 0, 0, 0, 2, 0, 0>>>>,
       <<1, 1, <<0, 1, 0, 1, 0, 0, 0, 2, 0, 0>>>>,
       <<1, 1, <<0, 0, 0, 1, 2, 0, 0, 0, 1, 0>>>>,
       <<-1, 2, <<0, 0, 1, 0, 1, 1, 0, 0, 1, 0>>>>,
       <<1, 6, <<0, 1, 0, 0, 0, 2, 0, 0, 1, 0>>>>,
       <<1, 3, <<0, 1, 0, 0, 1, 0, 1, 0, 1, 0>>>>,
       <<-1, 2, <<1, 0, 0, 0, 0, 1, 1, 0, 1, 0>>>>,
       <<1, 3, <<0, 1, 1, 0, 0, 0, 0, 1, 1, 0>>>>,
       <<-3, 1, <<1, 0, 0, 1, 0, 0, 0, 1, 1, 0>>>>,
       <<-1, 3, <<0, 2, 0, 0, 0, 0, 0, 0, 2, 0>>>>,
       <<1, 1, <<1, 0, 1, 0, 0, 0, 0, 0, 2, 0>>>>,
       <<1, 1, <<0, 0, 2, 0, 1, 0, 0, 0, 0, 1>>>>,
       <<-3, 1, <<0, 1, 0, 1, 1, 0, 0, 0, 0, 1>>>>,
       <<-1, 2, <<0, 1, 1, 0, 0, 1, 0, 0, 0, 1>>>>,
       <<9, 2, <<1, 0, 0, 1, 0, 1, 0, 0, 0, 1>>>>,
       <<1, 1, <<0, 2, 0, 0, 0, 0, 1, 0, 0, 1>>>>,
       <<-3, 1, <<1, 0, 1, 0, 0, 0, 1, 0, 0, 1>>>> >>

CubicGTerms ==
    << <<1, 864, <<0, 0, 0, 0, 0, 6, 0, 0, 0, 0>>>>,
       <<-1, 72, <<0, 0, 0, 0, 1, 4, 1, 0, 0, 0>>>>,
       <<1, 18, <<0, 0, 0, 0, 2, 2, 2, 0, 0, 0>>>>,
       <<-2, 27, <<0, 0, 0, 0, 3, 0, 3, 0, 0, 0>>>>,
       <<1, 24, <<0, 0, 0, 1, 1, 3, 0, 1, 0, 0>>>>,
       <<-1, 72, <<0, 0, 1, 0, 0, 4, 0, 1, 0, 0>>>>,
       <<-1, 6, <<0, 0, 0, 1, 2, 1, 1, 1, 0, 0>>>>,
       <<1, 36, <<0, 0, 1, 0, 1, 2, 1, 1, 0, 0>>>>,
       <<1, 24, <<0, 1, 0, 0, 0, 3, 1, 1, 0, 0>>>>,
       <<1, 9, <<0, 0, 1, 0, 2, 0, 2, 1, 0, 0>>>>,
       <<-1, 6, <<0, 1, 0, 0, 1, 1, 2, 1, 0, 0>>>>,
       <<-1, 12, <<1, 0, 0, 0, 0, 2, 2, 1, 0, 0>>>>,
       <<1, 3, <<1, 0, 0, 0, 1, 0, 3, 1, 0, 0>>>>,
       <<1, 4, <<0, 0, 0, 2, 2, 0, 0, 2, 0, 0>>>>,
       <<-1, 6, <<0, 0, 1, 1, 1, 1, 0, 2, 0, 0>>>>,
       <<1, 18, <<0, 0, 2, 0, 0, 2, 0, 2, 0, 0>>>>,
       <<-1, 12, <<0, 1, 0, 1, 0, 2, 0, 2, 0, 0>>>>,
       <<1, 9, <<0, 0, 2, 0, 1, 0, 1, 2, 0, 0>>>>,
       <<-1, 6, <<0, 1, 0, 1, 1, 0, 1, 2, 0, 0>>>>,
       <<-1, 6, <<0, 1, 1, 0, 0, 1, 1, 2, 0, 0>>>>,
       <<1, 1, <<1, 0, 0, 1, 0, 1, 1, 2, 0, 0>>>>,
       <<1, 4, <<0, 2, 0, 0, 0, 0, 2, 2, 0, 0>>>>,
       <<-2, 3, <<1, 0, 1, 0, 0, 0, 2, 2, 0, 0>>>>,
       <<-2, 27, <<0, 0, 3, 0, 0, 0, 0, 3, 0, 0>>>>,
       <<1, 3, <<0, 1, 1, 1, 0, 0, 0, 3, 0, 0>>>>,
       <<-1, 1, <<1, 0, 0, 2, 0, 0, 0, 3, 0, 0>>>>,
       <<-1, 12, <<0, 0, 0, 1, 2, 2, 0, 0, 1, 0>>>>,
       <<1, 24, <<0, 0, 1, 0, 1, 3, 0, 0, 1, 0>>>>,
       <<-1, 72, <<0, 1, 0, 0, 0, 4, 0, 0, 1, 0>>>>,
       <<1, 3, <<0, 0, 0, 1, 3, 0, 1, 0, 1, 0>>>>,
       <<-1, 6, <<0, 0, 1, 0, 2, 1, 1, 0, 1, 0>>>>,
       <<1, 36, <<0, 1, 0, 0, 1, 2, 1, 0, 1, 0>>>>,
       <<1, 24, <<1, 0, 0, 0, 0, 3, 1, 0, 1, 0>>>>,
       <<1, 9, <<0, 1, 0, 0, 2, 0, 2, 0, 1, 0>>>>,
       <<-1, 6, <<1, 0, 0, 0, 1, 1, 2, 0, 1, 0>>>>,
       <<-1, 6, <<0, 0, 1, 1, 2, 0, 0, 1, 1, 0>>>>,
       <<-1, 6, <<0, 0, 2, 0, 1, 1, 0, 1, 1, 0>>>>,
       <<5, 6, <<0, 1, 0, 1, 1, 1, 0, 1, 1, 0>>>>,
       <<1, 36, <<0, 1, 1, 0, 0, 2, 0, 1, 1, 0>>>>,
       <<-3, 4, <<1, 0, 0, 1, 0, 2, 0, 1, 1, 0>>>>,
       <<1, 18, <<0, 1, 1, 0, 1, 0, 1, 1, 1, 0>>>>,
       <<-3, 2, <<1, 0, 0, 1, 1, 0, 1, 1, 1, 0>>>>,
       <<-1, 6, <<0, 2, 0, 0, 0, 1, 1, 1, 1, 0>>>>,
       <<5, 6, <<1, 0, 1, 0, 0, 1, 1, 1, 1, 0>>>>,
       <<-1, 6, <<1, 1, 0, 0, 0, 0, 2, 1, 1, 0>>>>,
       <<1, 9, <<0, 1, 2, 0, 0, 0, 0, 2, 1, 0>>>>,
       <<-2, 3, <<0, 2, 0, 1, 0, 0, 0, 2, 1, 0>>>>,
       <<1, 1, <<1, 0, 1, 1, 0, 0, 0, 2, 1, 0>>>>,
       <<1, 4, <<0, 0, 2, 0, 2, 0, 0, 0, 2, 0>>>>,
       <<-2, 3, <<0, 1, 0, 1, 2, 0, 0, 0, 2, 0>>>>,
       <<-1, 6, <<0, 1, 1, 0, 1, 1, 0, 0, 2, 0>>>>,
       <<1, 1, <<1, 0, 0, 1, 1, 1, 0, 0, 2, 0>>>>,
       <<1, 18, <<0, 2, 0, 0, 0, 2, 0, 0, 2, 0>>>>,
       <<-1, 12, <<1, 0, 1, 0, 0, 2, 0, 0, 2, 0>>>>,
       <<1, 9, <<0, 2, 0, 0, 1, 0, 1, 0, 2, 0>>>>,
       <<-1, 6, <<1, 0, 1, 0, 1, 0, 1, 0, 2, 0>>>>,
       <<-1, 6, <<1, 1, 0, 0, 0, 1, 1, 0, 2, 0>>>>,
       <<1, 4, <<2, 0, 0, 0, 0, 0, 2, 0, 2, 0>>>>,
       <<1, 9, <<0, 2, 1, 0, 0, 0, 0, 1, 2, 0>>>>,
       <<-2, 3, <<1, 0, 2, 0, 0, 0, 0, 1, 2, 0>>>>,
       <<1, 1, <<1, 1, 0, 1, 0, 0, 0, 1, 2, 0>>>>,
       <<-2, 27, <<0, 3, 0, 0, 0, 0, 0, 0, 3, 0>>>>,
       <<1, 3, <<1, 1, 1, 0, 0, 0, 0, 0, 3, 0>>>>,
       <<-1, 1, <<2, 0, 0, 1, 0, 0, 0, 0, 3, 0>>>>,
       <<-1, 1, <<0, 0, 0, 2, 3, 0, 0, 0, 0, 1>>>>,
       <<1, 1, <<0, 0, 1, 1, 2, 1, 0, 0, 0, 1>>>>,
       <<-1, 12, <<0, 0, 2, 0, 1, 2, 0, 0, 0, 1>>>>,
       <<-3, 4, <<0, 1, 0, 1, 1, 2, 0, 0, 0, 1>>>>,
       <<1, 24, <<0, 1, 1, 0, 0, 3, 0, 0, 0, 1>>>>,
       <<5, 8, <<1, 0, 0, 1, 0, 3, 0, 0, 0, 1>>>>,
       <<-2, 3, <<0, 0, 2, 0, 2, 0, 1, 0, 0, 1>>>>,
       <<1, 1, <<0, 1, 0, 1, 2, 0, 1, 0, 0, 1>>>>,
       <<5, 6, <<0, 1, 1, 0, 1, 1, 1, 0, 0, 1>>>>,
       <<-3, 2, <<1, 0, 0, 1, 1, 1, 1, 0, 0, 1>>>>,
       <<-1, 12, <<0, 2, 0, 0, 0, 2, 1, 0, 0, 1>>>>,
       <<-3, 4, <<1, 0, 1, 0, 0, 2, 1, 0, 0, 1>>>>,
       <<-2, 3, <<0, 2, 0, 0, 1, 0, 2, 0, 0, 1>>>>,
       <<1, 1, <<1, 0, 1, 0, 1, 0, 2, 0, 0, 1>>>>,
       <<1, 1, <<1, 1, 0, 0, 0, 1, 2, 0, 0, 1>>>>,
       <<-1, 1, <<2, 0, 0, 0, 0, 0, 3, 0, 0, 1>>>>,
       <<1, 3, <<0, 0, 3, 0, 1, 0, 0, 1, 0, 1>>>>,
       <<-3, 2, <<0, 1, 1, 1, 1, 0, 0, 1, 0, 1>>>>,
       <<9, 2, <<1, 0, 0, 2, 1, 0, 0, 1, 0, 1>>>>,
       <<-1, 6, <<0, 1, 2, 0, 0, 1, 0, 1, 0, 1>>>>,
       <<1, 1, <<0, 2, 0, 1, 0, 1, 0, 1, 0, 1>>>>,
       <<-3, 2, <<1, 0, 1, 1, 0, 1, 0, 1, 0, 1>>>>,
       <<-1, 6, <<0, 2, 1, 0, 0, 0, 1, 1, 0, 1>>>>,
       <<1, 1, <<1, 0, 2, 0, 0, 0, 1, 1, 0, 1>>>>,
       <<-3, 2, <<1, 1, 0, 1, 0, 0, 1, 1, 0, 1>>>>,
       <<-1, 6, <<0, 1, 2, 0, 1, 0, 0, 0, 1, 1>>>>,
       <<1, 1, <<0, 2, 0, 1, 1, 0, 0, 0, 1, 1>>>>,
       <<-3, 2, <<1, 0, 1, 1, 1, 0, 0, 0, 1, 1>>>>,
       <<-1, 6, <<0, 2, 1, 0, 0, 1, 0, 0, 1, 1>>>>,
       <<1, 1, <<1, 0, 2, 0, 0, 1, 0, 0, 1, 1>>>>,
       <<-3, 2, <<1, 1, 0, 1, 0, 1, 0, 0, 1, 1>>>>,
       <<1, 3, <<0, 3, 0, 0, 0, 0, 1, 0, 1, 1>>>>,
       <<-3, 2, <<1, 1, 1, 0, 0, 0, 1, 0, 1, 1>>>>,
       <<9, 2, <<2, 0, 0, 1, 0, 0, 1, 0, 1, 1>>>>,
       <<1, 4, <<0, 2, 2, 0, 0, 0, 0, 0, 0, 2>>>>,
       <<-1, 1, <<1, 0, 3, 0, 0, 0, 0, 0, 0, 2>>>>,
       <<-1, 1, <<0, 3, 0, 1, 0, 0, 0, 0, 0, 2>>>>,
       <<9, 2, <<1, 1, 1, 1, 0, 0, 0, 0, 0, 2>>>>,
       <<-27, 4, <<2, 0, 0, 2, 0, 0, 0, 0, 0, 2>>>> >>


CubicMonomials(x, y, z) ==
    LET m(i, j) == IF z = None THEN EAdd(XPow(x, i), XPow(y, j))
                   ELSE EAdd(EAdd(XPow(x, i), XPow(y, j)), XPow(z, 3 - i - j))
    IN  <<m(3, 0), m(2, 1), m(1, 2), m(0, 3), m(2, 0), m(1, 1), m(0, 2),
          m(1, 0), m(0, 1), m(0, 0)>>

RECURSIVE PowProd(_, _, _)
PowProd(a, pw, i) ==
    IF i > Len(pw) THEN One
    ELSE IF pw[i] = 0 THEN PowProd(a, pw, i + 1)
    ELSE PMul(PPow(a[i], pw[i]), PowProd(a, pw, i + 1))

TermValue(a, row) ==
    IF \E i \in 1..Len(row[3]) : row[3][i] > 0 /\ a[i] = Zero THEN Zero
    ELSE PScale(Frac(row[1], row[2]), PowProd(a, row[3], 1))

\* The sum of the rows lo..hi, by halves.
RECURSIVE SumTerms(_, _, _, _)
SumTerms(a, rows, lo, hi) ==
    IF lo > hi THEN Zero
    ELSE IF lo = hi THEN TermValue(a, rows[lo])
    ELSE LET mid == (lo + hi) \div 2
         IN  PAdd(SumTerms(a, rows, lo, mid), SumTerms(a, rows, mid + 1, hi))

S_invariant(a) == PScale(Frac(1, 27), SumTerms(a, CubicFTerms, 1, Len(CubicFTerms)))
T_invariant(a) == PScale(Frac(-4, 27), SumTerms(a, CubicGTerms, 1, Len(CubicGTerms)))

ternary_cubic(polynomial, x, y, z) ==
    LET variables == IF z = None THEN <<x, y>> ELSE <<x, y, z>>
        a == _extract_coefficients(polynomial, CubicMonomials(x, y, z), variables)
    IN  [ok |-> a.ok, coeffs |-> a.coeffs, a |-> a.result]

\* A fault of line 762: the division by 4 left out.
CubicWeierstrassUndivided(S, T) == <<PScale(27, S), PScale(-27, T)>>

\* line 762.
CubicWeierstrass(S, T) == <<PScale(27, S), PScale(Frac(-27, 4), T)>>

----------------------------------------------------------------------------
(* LatticePolytope_PPL: the Newton polytope of a support (a set of         *)
(* exponent tuples of length n), its affine_dimension and its              *)
(* embed_in_reflexive_polytope.  An embedding is an affine unimodular map  *)
(* of the polytope's affine span into one of the three maximal reflexive   *)
(* polygons; the classifier may return any of them.                        *)

Polygons == {"polar_P2", "polar_P1xP1", "polar_P2_112"}

InPolygon(polygon, a) ==
    /\ a[1] >= 0
    /\ a[2] >= 0
    /\ CASE polygon = "polar_P2" -> a[1] + a[2] <= 3
         [] polygon = "polar_P1xP1" -> a[1] <= 2 /\ a[2] <= 2
         [] OTHER -> a[1] + 2 * a[2] <= 4

Diffs(points) ==
    LET o == CHOOSE o \in points : TRUE
    IN  {[i \in DOMAIN o |-> q[i] - o[i]] : q \in points}

Det3(u, v, w, i, j, k) ==
      u[i] * (v[j] * w[k] - v[k] * w[j])
    - u[j] * (v[i] * w[k] - v[k] * w[i])
    + u[k] * (v[i] * w[j] - v[j] * w[i])

\* newton_polytope.affine_dimension() <= 2
AffineDimensionAtMost2(points, n) ==
    \/ points = {}
    \/ \A u, v, w \in Diffs(points) :
         \A i, j, k \in 1..n : (i < j /\ j < k) => Det3(u, v, w, i, j, k) = 0

\* The 2x2 integer matrices <<m11, m12, m21, m22>> of determinant +-1 with
\* entries in -1..1.
Unimodular == {m \in [1..4 -> -1..1] : m[1] * m[4] - m[2] * m[3] \in {1, -1}}

\* The affine span is the graph of an integral affine map over the
\* coordinates i and j.
GraphOver(points, n, i, j) ==
    \A k \in (1..n) \ {i, j} :
        \E al, be \in -3..3 :
            \A d \in Diffs(points) : d[k] = al * d[i] + be * d[j]

Lin(m, e, i, j) == <<m[1] * e[i] + m[2] * e[j], m[3] * e[i] + m[4] * e[j]>>

SetMin(S) == CHOOSE a \in S : \A b \in S : a <= b
SetMax(S) == CHOOSE a \in S : \A b \in S : a >= b

\* The maps e |-> m * (e[i], e[j]) + b that send every point into some
\* maximal polygon, as functions on the points.
AffineMaps(points, n) ==
    UNION { UNION {
        LET im == [e \in points |-> Lin(m, e, ij[1], ij[2])]
            lo1 == SetMin({im[e][1] : e \in points})
            hi1 == SetMax({im[e][1] : e \in points})
            lo2 == SetMin({im[e][2] : e \in points})
            hi2 == SetMax({im[e][2] : e \in points})
        IN  {[e \in points |-> <<im[e][1] + b1, im[e][2] + b2>>] :
                b1 \in (0 - lo1)..(4 - hi1), b2 \in (0 - lo2)..(3 - hi2)}
        : m \in Unimodular }
      : ij \in {q \in (1..n) \X (1..n) :
                  q[1] < q[2] /\ GraphOver(points, n, q[1], q[2])} }

\* The possible results of embed_in_reflexive_polytope: the polygon
\* (output='polytope') and the images of the points (output='points').
embed_in_reflexive_polytope(points, n) ==
    {r \in [polygon : Polygons, embedding : AffineMaps(points, n)] :
        \A e \in points : InPolygon(r.polygon, r.embedding[e])}

----------------------------------------------------------------------------
(* Newton_polygon_embedded, lines 344-349: the embedded polynomial.        *)

RECURSIVE EmbedLoop(_, _, _, _, _)
EmbedLoop(keys, p_dict, embedding, x, y) ==
    IF keys = {} THEN Zero
    ELSE LET e == CHOOSE e \in keys : TRUE
             e_embed == embedding[e]
         IN  PAdd(EmbedLoop(keys \ {e}, p_dict, embedding, x, y),
                  PMul(p_dict[e],
                       Mono(EAdd(XPow(x, e_embed[1]), XPow(y, e_embed[2])))))

\* A fault of line 345: the exponents e instead of e_embed.
EmbeddedPolynomialAtOldExponents(p_dict, embedding, variables) ==
    EmbedLoop(DOMAIN p_dict, p_dict, [e \in DOMAIN p_dict |-> <<e[1], e[2]>>],
              variables[1], variables[2])

EmbeddedPolynomial(p_dict, embedding, variables) ==
    EmbedLoop(DOMAIN p_dict, p_dict, embedding, variables[1], variables[2])

----------------------------------------------------------------------------
(* Discriminant line 182 and j_invariant lines 226-231, given the pair     *)
(* (f, g) that WeierstrassForm returned.                                   *)

NoCoeffs == << >>

Returned(kind, value) ==
    [status |-> "returned", kind |-> kind, weights |-> << >>,
     value |-> value, coeffs |-> NoCoeffs]

Raised(error, coeffs) ==
    [status |-> "raised", kind |-> error.kind, weights |-> error.weights,
     value |-> << >>, coeffs |-> coeffs]

Error(kind) == [kind |-> kind, weights |-> << >>]

\* Plausible faults of the two formulas below, used to see that the
\* properties stated of them depend on them.
DiscriminantSignFlipped(f, g) ==
    PSub(PScale(4, PPow(f, 3)), PScale(27, PPow(g, 2)))

j_invariant_testing_g(f, g) ==
    LET disc == PAdd(PScale(4, PPow(f, 3)), PScale(27, PPow(g, 2)))
    IN  IF disc # Zero
        THEN Returned("quotient", <<PScale(1728 * 4, PPow(f, 3)), disc>>)
        ELSE IF g # Zero
        THEN Returned("Infinity", << >>)
        ELSE Raised(Error("UndefinedJInvariant"), NoCoeffs)

j_invariant_cusp_only(f, g) ==
    LET disc == PAdd(PScale(4, PPow(f, 3)), PScale(27, PPow(g, 2)))
    IN  IF disc # Zero
        THEN Returned("quotient", <<PScale(1728 * 4, PPow(f, 3)), disc>>)
        ELSE IF f # Zero \/ g # Zero
        THEN Returned("Infinity", << >>)
        ELSE Raised(Error("UndefinedJInvariant"), NoCoeffs)

Discriminant(f, g) ==
    PAdd(PScale(4, PPow(f, 3)), PScale(27, PPow(g, 2)))

\* The quotient 1728 * 4*f**3/disc is returned as the pair <<numerator,
\* denominator>>; forming it is the coefficient ring's business.
j_invariant(f, g) ==
    LET disc == PAdd(PScale(4, PPow(f, 3)), PScale(27, PPow(g, 2)))
    IN  IF disc # Zero
        THEN Returned("quotient", <<PScale(1728 * 4, PPow(f, 3)), disc>>)
        ELSE IF f # Zero
        THEN Returned("Infinity", << >>)
        ELSE Raised(Error("UndefinedJInvariant"), NoCoeffs)

----------------------------------------------------------------------------
(* The routines as functions of their arguments: what a call returns or    *)
(* raises.                                                                 *)

UnexpectedMonomials == Error("UnexpectedMonomials")

\* WeierstrassForm_P2, lines 757-762.
WeierstrassForm_P2(polynomial, variables) ==
    LET r == _check_polynomial_P2(polynomial, variables)
        cubic == ternary_cubic(polynomial, r.variables[1], r.variables[2],
                               r.variables[3])
    IN  IF r.error # Ok THEN Raised(r.error, NoCoeffs)
        ELSE IF ~cubic.ok THEN Raised(UnexpectedMonomials, cubic.coeffs)
        ELSE Returned("pair", CubicWeierstrass(S_invariant(cubic.a),
                                                T_invariant(cubic.a)))

\* lines 942-946 and 1076-1080: eliminate (y0, y1), then the quartic in
\* (x0, x1).
QuarticPath(polynomial, y0, y1, x0, x1) ==
    LET d == _partial_discriminant(polynomial, y0, y1)
        Q == binary_quartic(d.delta, x0, x1)
    IN  IF ~d.ok THEN Raised(UnexpectedMonomials, d.coeffs)
        ELSE IF ~Q.ok THEN Raised(UnexpectedMonomials, Q.coeffs)
        ELSE Returned("pair", QuarticWeierstrass(Q))

\* WeierstrassForm_P1xP1, lines 941-946: x, y, s, t = the checked variables.
WeierstrassForm_P1xP1(biquadric, variables) ==
    LET r == _check_polynomial_P1xP1(biquadric, variables)
    IN  IF r.error # Ok THEN Raised(r.error, NoCoeffs)
        ELSE QuarticPath(biquadric, r.variables[3], r.variables[4],
                         r.variables[1], r.variables[2])

\* WeierstrassForm_P2_112, lines 1075-1080: x, y, z, t = the checked
\* variables.
WeierstrassForm_P2_112(polynomial, variables) ==
    LET r == _check_polynomial_P2_112(polynomial, variables)
    IN  IF r.error # Ok THEN Raised(r.error, NoCoeffs)
        ELSE QuarticPath(polynomial, r.variables[2], r.variables[4],
                         r.variables[1], r.variables[3])

Family(fn, polynomial, variables) ==
    IF fn = "WeierstrassForm_P2" THEN WeierstrassForm_P2(polynomial, variables)
    ELSE IF fn = "WeierstrassForm_P1xP1"
    THEN WeierstrassForm_P1xP1(polynomial, variables)
    ELSE WeierstrassForm_P2_112(polynomial, variables)

FamilyOf(polygon) ==
    IF polygon = "polar_P2" THEN "WeierstrassForm_P2"
    ELSE IF polygon = "polar_P1xP1" THEN "WeierstrassForm_P1xP1"
    ELSE "WeierstrassForm_P2_112"

\* Newton_polygon_embedded, lines 340-349, for the answer r of the
\* classifier: the polygon and the re-embedded polynomial.
Newton_polygon_embedded(polynomial, variables, r) ==
    [polygon |-> r.polygon,
     polynomial |-> EmbeddedPolynomial(
                        Newton_polytope_vars_coeffs(polynomial, variables),
                        r.embedding, variables),
     variables |-> SubSeq(variables, 1, 2)]

\* WeierstrassForm, lines 487-500, for the answer r of the classifier.
WeierstrassForm(polynomial, variables, r) ==
    LET vs == IF variables = NoVars THEN PolyVariables(polynomial) ELSE variables
        n == Newton_polygon_embedded(polynomial, vs, r)
    IN  Family(FamilyOf(n.polygon), n.polynomial, n.variables)

\* line 182 and lines 226-231 applied to what WeierstrassForm gave.
PostProcess(fn, w) ==
    IF fn = "WeierstrassForm" \/ w.status = "raised" THEN w
    ELSE IF fn = "Discriminant"
    THEN Returned("value", <<Discriminant(w.value[1], w.value[2])>>)
    ELSE j_invariant(w.value[1], w.value[2])

----------------------------------------------------------------------------
(* The calls the model runs.                                               *)

\* Coefficients of the sample curves range over 0..MaxCoef; the monomials
\* added to a sample polynomial have exponents up to MaxExp.
MaxCoef == 5
MaxExp == 4

Term(c, e) == PScale(c, Mono(e))

RECURSIVE Poly(_)
Poly(terms) ==
    IF terms = << >> THEN Zero
    ELSE PAdd(Term(Head(terms)[1], Head(terms)[2]), Poly(Tail(terms)))

XY(i, j) == <<i, j, 0, 0>>

\* The monomial bases of the three families in the inhomogeneous
\* coordinates (x, y), lines 28-71.
CubicBasis == {XY(i, j) : i \in 0..3, j \in 0..3} \cap
              {e \in [1..NG -> 0..3] : e[1] + e[2] <= 3}
BiquadricBasis == {XY(i, j) : i \in 0..2, j \in 0..2}
QuarticBasis == {XY(i, j) : i \in 0..4, j \in 0..2} \cap
                {e \in [1..NG -> 0..4] : e[1] + 2 * e[2] <= 4}

Monomials2 == {XY(i, j) : i \in 0..MaxExp, j \in 0..MaxExp}

\* -y^2 + x^3 + a*x + b
Weierstrass(a, b) ==
    Poly(<< <<-1, XY(0, 2)>>, <<1, XY(3, 0)>>, <<a, XY(1, 0)>>, <<b, XY(0, 0)>> >>)

\* -y^2 + x^3 + z*x + t, a curve over (Z/ring)[z, t]
WeierstrassOverZT ==
    Poly(<< <<-1, XY(0, 2)>>, <<1, XY(3, 0)>>, <<1, <<1, 0, 1, 0>> >>,
            <<1, <<0, 0, 0, 1>> >> >>)

Fermat2 == Poly(<< <<1, XY(3, 0)>>, <<1, XY(0, 3)>>, <<1, XY(0, 0)>> >>)
Fermat3 == Poly(<< <<1, XY(3, 0)>>, <<1, XY(0, 3)>>, <<1, <<0, 0, 3, 0>> >> >>)
Nodal == Poly(<< <<-1, XY(0, 2)>>, <<1, XY(2, 0)>>, <<1, XY(3, 0)>> >>)
XYZ == Mono(<<1, 1, 1, 0>>)
Quartic2 == Poly(<< <<1, XY(4, 0)>>, <<1, XY(0, 2)>>, <<1, XY(0, 0)>> >>)
\* x^4*t^2 + y^2 + z^4*t^2 in the coordinates (x, y, z, t) of P^2[1,1,2]
Quartic4 ==
    Poly(<< <<1, <<4, 0, 0, 2>> >>, <<1, XY(0, 2)>>, <<1, <<0, 0, 4, 2>> >> >>)
Biquadric2 ==
    Poly(<< <<1, XY(2, 2)>>, <<1, XY(2, 0)>>, <<1, XY(0, 2)>>, <<1, XY(0, 0)>> >>)
\* (x^2 + y^2) * (z^2 + t^2) in the coordinates (x0, x1, y0, y1) = (x, y, z, t)
Biquadric4 ==
    Poly(<< <<1, <<2, 0, 2, 0>> >>, <<1, <<2, 0, 0, 2>> >>,
            <<1, <<0, 2, 2, 0>> >>, <<1, <<0, 2, 0, 2>> >> >>)
\* x^3 + y^2 + 1: a weighted quartic without x^4, and a cubic
CubicQuartic == Poly(<< <<1, XY(3, 0)>>, <<1, XY(0, 2)>>, <<1, XY(0, 0)>> >>)
\* 1 + x + y + z: a Newton polytope of dimension 3 in (x, y, z)
Simplex3 ==
    Poly(<< <<1, XY(0, 0)>>, <<1, XY(1, 0)>>, <<1, XY(0, 1)>>,
            <<1, <<0, 0, 1, 0>> >> >>)
\* x^5 + y^2 + 1 and x^4 + y^4 + 1: polygons in no maximal reflexive polygon
Quintic == Poly(<< <<1, XY(5, 0)>>, <<1, XY(0, 2)>>, <<1, XY(0, 0)>> >>)
Fermat4 == Poly(<< <<1, XY(4, 0)>>, <<1, XY(0, 4)>>, <<1, XY(0, 0)>> >>)

NoHelperArgs ==
    [weights |-> << >>, total_given |-> FALSE, total_weight |-> 0,
     monomials |-> << >>]

TopCall(fn, polynomial, variables, is_list, transformation) ==
    [fn |-> fn, polynomial |-> polynomial, variables |-> variables,
     is_list |-> is_list, transformation |-> transformation,
     helper |-> NoHelperArgs]

TopFns == {"WeierstrassForm", "Discriminant", "j_invariant"}
FamilyFns == {"WeierstrassForm_P2", "WeierstrassForm_P1xP1",
              "WeierstrassForm_P2_112"}

SamplePolys ==
    {WeierstrassOverZT, Fermat2, Fermat3, Nodal, XYZ, Quartic2, Quartic4,
     Biquadric2, Biquadric4, CubicQuartic, Simplex3, Quintic, Fermat4}

Curves == {Weierstrass(a, b) : a, b \in 0..MaxCoef}

TopCalls ==
    {TopCall("WeierstrassForm", p, v, l, t) :
        p \in SamplePolys, v \in {NoVars, <<1, 2>>, <<1, 2, 3>>},
        l \in BOOLEAN, t \in BOOLEAN}
    \cup
    {TopCall(fn, p, v, FALSE, FALSE) :
        fn \in {"Discriminant", "j_invariant"},
        p \in SamplePolys \cup Curves, v \in {NoVars, <<1, 2>>}}

\* The family routines called directly: each family's sample polynomials in
\* the inhomogeneous coordinates (x, y), alone and with one more monomial.
Basis(fn) ==
    IF fn = "WeierstrassForm_P2" THEN CubicBasis
    ELSE IF fn = "WeierstrassForm_P1xP1" THEN BiquadricBasis
    ELSE QuarticBasis

\* y^2 + 1 and x^2*y^2 + x
Conic == Poly(<< <<1, XY(0, 2)>>, <<1, XY(0, 0)>> >>)
Biquadric0 == Poly(<< <<1, XY(2, 2)>>, <<1, XY(1, 0)>> >>)

BasePolys(fn) ==
    IF fn = "WeierstrassForm_P2" THEN {Fermat2, CubicQuartic}
    ELSE IF fn = "WeierstrassForm_P1xP1" THEN {Biquadric2, Biquadric0, Conic}
    ELSE {Quartic2, CubicQuartic, Conic}

FamilyCalls2 ==
    {TopCall(fn, p, v, FALSE, FALSE) :
        fn \in FamilyFns,
        p \in UNION {BasePolys(f) \cup
                     {PAdd(b, Mono(e)) : b \in BasePolys(f),
                                         e \in Monomials2 \ Basis(f)} :
                     f \in FamilyFns},
        v \in {NoVars, <<1, 2>>, <<2, 1>>}}

\* x^4, and p + x^4 for the cubic p of the test of lines 540-543
X4 == Mono(XY(4, 0))
HomogeneousPolys ==
    {Fermat3, PAdd(Fermat3, X4), X4, XYZ, Quartic4, Biquadric4, Fermat2}

FamilyCallsN ==
    {TopCall(fn, p, v, FALSE, FALSE) :
        fn \in FamilyFns, p \in HomogeneousPolys,
        v \in {NoVars, <<1>>, <<1, 3>>, <<1, 2, 3>>, <<3, 1, 2>>,
               <<1, 2, 3, 4>>, <<1, 3, 2, 4>>}}

HelperCall(fn, polynomial, variables, helper) ==
    [fn |-> fn, polynomial |-> polynomial, variables |-> variables,
     is_list |-> FALSE, transformation |-> FALSE, helper |-> helper]

\* The weight vectors the three families check, lines 652, 808-809, 993-994.
FamilyWeights ==
    {<<1, 1, 1>>, <<1, 1, 0, 0>>, <<0, 0, 1, 1>>, <<1, 0, 1, -2>>, <<0, 1, 0, 1>>}

HomogeneityCalls ==
    {HelperCall("_check_homogeneity", p, [i \in 1..Len(w) |-> i],
                [weights |-> w, total_given |-> gt[1], total_weight |-> gt[2],
                 monomials |-> << >>]) :
        p \in HomogeneousPolys, w \in FamilyWeights,
        gt \in {<<FALSE, 0>>} \cup {<<TRUE, t>> : t \in 0..MaxExp}}

\* The monomial lists of the callers (lines 856 and 859, the quartic and the
\* cubic of invariant_theory) and lists with a repeated monomial.
MonomialLists ==
    {<<E0, XPow(2, 1), XPow(2, 2)>>, <<XPow(1, 2), XY(1, 1), XPow(2, 2)>>,
     QuarticMonomials(1, None), QuarticMonomials(1, 2),
     CubicMonomials(1, 2, None), <<E0>>, <<XPow(1, 2)>>,
     <<E0, XPow(1, 2), XPow(1, 2)>>, <<XPow(2, 2), E0, XPow(2, 2), E0>>}

ExtractCalls ==
    {HelperCall("_extract_coefficients", p, v,
                [weights |-> << >>, total_given |-> FALSE, total_weight |-> 0,
                 monomials |-> m]) :
        p \in {Fermat2, Nodal, Quartic2, Biquadric2, Biquadric0, Conic,
               WeierstrassOverZT, XYZ, X4},
        m \in MonomialLists, v \in {<<1>>, <<2>>, <<1, 2>>, <<2, 1>>}}

\* Polynomials that are both a cubic and a biquadric (no x^2*y^2), or both
\* a cubic and a weighted quartic (no x^4), lines 896-903 and 1067-1073:
\* every choice of monomials, with all coefficients 1 and with coefficients
\* that differ from monomial to monomial.
CrossCoef(mixed, e) == IF mixed THEN 1 + ((e[1] + 2 * e[2]) % MaxCoef) ELSE 1

SumOfTerms(S, mixed) ==
    [e \in {d \in S : F(CrossCoef(mixed, d)) # 0} |-> F(CrossCoef(mixed, e))]

CrossPolys(fn) ==
    {SumOfTerms(S, mixed) :
        S \in SUBSET (Basis(fn) \cap CubicBasis) \ {{}}, mixed \in BOOLEAN}

\* The biquadric of line 892 and a weighted quartic with a40 = 0, in four
\* homogeneous variables.
TermsOf(terms) ==
    LET c(e) == F(terms[CHOOSE i \in 1..Len(terms) : terms[i][2] = e][1])
    IN  [e \in {d \in {terms[i][2] : i \in 1..Len(terms)} : c(d) # 0} |-> c(e)]

BiquadricNoTop ==
    TermsOf(<< <<1, <<2, 0, 2, 0>> >>, <<2, <<1, 1, 2, 0>> >>, <<3, <<0, 2, 2, 0>> >>,
            <<4, <<2, 0, 1, 1>> >>, <<5, <<1, 1, 1, 1>> >>, <<6, <<0, 2, 1, 1>> >>,
            <<7, <<2, 0, 0, 2>> >>, <<8, <<1, 1, 0, 2>> >> >>)
QuarticNoTop ==
    TermsOf(<< <<1, <<0, 2, 0, 0>> >>, <<2, <<2, 1, 0, 1>> >>, <<3, <<1, 1, 1, 1>> >>,
            <<1, <<3, 0, 1, 2>> >>, <<2, <<1, 0, 3, 2>> >>, <<1, <<0, 0, 4, 2>> >> >>)

CrossCalls ==
    UNION {{TopCall(fn, p, <<1, 2>>, FALSE, FALSE) : p \in CrossPolys(fn)} :
           fn \in {"WeierstrassForm_P1xP1", "WeierstrassForm_P2_112"}}
    \cup {TopCall("WeierstrassForm_P1xP1", BiquadricNoTop, <<1, 2, 3, 4>>,
                  FALSE, FALSE),
          TopCall("WeierstrassForm_P2_112", QuarticNoTop, <<1, 2, 3, 4>>,
                  FALSE, FALSE)}

Calls ==
    TopCalls \cup FamilyCalls2 \cup FamilyCallsN \cup HomogeneityCalls
             \cup ExtractCalls \cup CrossCalls

----------------------------------------------------------------------------
(* The state machine.                                                      *)

NoOutcome ==
    [status |-> "none", kind |-> "", weights |-> << >>, value |-> << >>,
     coeffs |-> NoCoeffs]

InitFrame(c) ==
    [polynomial |-> c.polynomial, variables |-> c.variables,
     p_dict |-> << >>, polygon |-> "", embedding |-> << >>,
     family |-> IF c.fn \in FamilyFns THEN c.fn ELSE "",
     checked |-> << >>, checks |-> << >>, log |-> <<c.fn>>,
     c |-> << >>, delta |-> Zero, fg |-> << >>]

EntryPc(fn) ==
    IF fn \in TopFns THEN "WeierstrassForm"
    ELSE IF fn \in FamilyFns THEN "check"
    ELSE fn

Init ==
    /\ ring \in Rings
    /\ call \in Calls
    /\ pc = EntryPc(call.fn)
    /\ frame = InitFrame(call)
    /\ outcome = NoOutcome

Raise(error, coeffs) ==
    /\ outcome' = Raised(error, coeffs)
    /\ pc' = "done"

Return(kind, value) ==
    /\ outcome' = Returned(kind, value)
    /\ pc' = "done"

\* Discriminant and j_invariant call WeierstrassForm(polynomial, variables)
\* and WeierstrassForm itself appears in their log.
Logged(names) == [frame EXCEPT !.log = @ \o names]

\* A fault of lines 484-486: the test of transformation made without the test
\* of line 481 before it.
DelegateCoveringMapOfAList ==
    /\ pc = "WeierstrassForm"
    /\ call.transformation
    /\ frame' = Logged(<<"WeierstrassMap">>)
    /\ Return("WeierstrassMap", <<call.variables>>)
    /\ UNCHANGED <<ring, call>>

\* lines 481-483
DelegateCompleteIntersection ==
    /\ pc = "WeierstrassForm"
    /\ call.is_list
    /\ frame' = Logged(<<"WeierstrassForm2">>)
    /\ Return("WeierstrassForm2", <<call.variables, call.transformation>>)
    /\ UNCHANGED <<ring, call>>

\* lines 484-486
DelegateCoveringMap ==
    /\ pc = "WeierstrassForm"
    /\ ~call.is_list
    /\ call.transformation
    /\ frame' = Logged(<<"WeierstrassMap">>)
    /\ Return("WeierstrassMap", <<call.variables>>)
    /\ UNCHANGED <<ring, call>>

\* lines 487-488
EnterCore ==
    /\ pc = "WeierstrassForm"
    /\ ~call.is_list
    /\ ~call.transformation
    /\ frame' = [frame EXCEPT
                   !.variables = IF @ = NoVars THEN PolyVariables(frame.polynomial)
                                 ELSE @]
    /\ pc' = "Newton_polytope_vars_coeffs"
    /\ UNCHANGED <<ring, call, outcome>>

\* line 340
ExtractSupport ==
    /\ pc = "Newton_polytope_vars_coeffs"
    /\ frame' = [Logged(<<"Newton_polytope_vars_coeffs">>) EXCEPT
                   !.p_dict = Newton_polytope_vars_coeffs(frame.polynomial,
                                                          frame.variables)]
    /\ pc' = "classify"
    /\ UNCHANGED <<ring, call, outcome>>

\* lines 341-343: the assertion on the dimension, then the classifier,
\* which fails or returns one of its possible embeddings
Classify ==
    /\ pc = "classify"
    /\ LET points == DOMAIN frame.p_dict
           n == Len(frame.variables)
           found == embed_in_reflexive_polytope(points, n)
       IN  IF ~AffineDimensionAtMost2(points, n)
           THEN /\ frame' = Logged(<<"affine_dimension">>)
                /\ Raise(Error("AssertionError"), NoCoeffs)
           ELSE IF found = {}
           THEN /\ frame' = Logged(<<"affine_dimension",
                                     "embed_in_reflexive_polytope">>)
                /\ Raise(Error("NotReflexive"), NoCoeffs)
           ELSE /\ \E r \in found :
                      frame' = [Logged(<<"affine_dimension",
                                         "embed_in_reflexive_polytope">>) EXCEPT
                                  !.polygon = r.polygon,
                                  !.embedding = r.embedding]
                /\ pc' = "embed"
                /\ UNCHANGED outcome
    /\ UNCHANGED <<ring, call>>

\* A fault of lines 344-349 and 491-492: the embedded polynomial and the two
\* variables written into the caller's arguments.
ReEmbedInPlace ==
    /\ pc = "embed"
    /\ frame' = [frame EXCEPT
                   !.polynomial = EmbeddedPolynomial(frame.p_dict, frame.embedding,
                                                     frame.variables),
                   !.variables = SubSeq(frame.variables, 1, 2)]
    /\ call' = [call EXCEPT !.polynomial = frame'.polynomial,
                            !.variables = frame'.variables]
    /\ pc' = "dispatch"
    /\ UNCHANGED <<ring, outcome>>

\* A fault of lines 344-349: the two variables taken in either order.
ReEmbedInEitherOrder ==
    /\ pc = "embed"
    /\ \E vs \in {frame.variables,
                  <<frame.variables[2], frame.variables[1]>>} :
          frame' = [frame EXCEPT
                      !.polynomial = EmbeddedPolynomial(frame.p_dict,
                                                        frame.embedding, vs),
                      !.variables = SubSeq(frame.variables, 1, 2)]
    /\ pc' = "dispatch"
    /\ UNCHANGED <<ring, call, outcome>>

\* lines 344-349 and 491-492
ReEmbed ==
    /\ pc = "embed"
    /\ frame' = [frame EXCEPT
                   !.polynomial = EmbeddedPolynomial(frame.p_dict, frame.embedding,
                                                     frame.variables),
                   !.variables = SubSeq(frame.variables, 1, 2)]
    /\ pc' = "dispatch"
    /\ UNCHANGED <<ring, call, outcome>>

\* A fault of lines 491-494: the cubic routine called with the whole variable
\* list of the caller.
DispatchWithTheCallersList ==
    /\ pc = "dispatch"
    /\ IF frame.polygon = "polar_P2"
       THEN /\ frame' = [Logged(<<"WeierstrassForm_P2">>) EXCEPT
                           !.family = "WeierstrassForm_P2",
                           !.variables =
                               IF call.variables = NoVars
                               THEN PolyVariables(call.polynomial)
                               ELSE call.variables]
            /\ pc' = "check"
            /\ UNCHANGED outcome
       ELSE IF frame.polygon = "polar_P1xP1"
       THEN /\ frame' = [Logged(<<"WeierstrassForm_P1xP1">>) EXCEPT
                           !.family = "WeierstrassForm_P1xP1"]
            /\ pc' = "check"
            /\ UNCHANGED outcome
       ELSE IF frame.polygon = "polar_P2_112"
       THEN /\ frame' = [Logged(<<"WeierstrassForm_P2_112">>) EXCEPT
                           !.family = "WeierstrassForm_P2_112"]
            /\ pc' = "check"
            /\ UNCHANGED outcome
       ELSE /\ frame' = frame
            /\ Raise(Error("NotReflexive"), NoCoeffs)
    /\ UNCHANGED <<ring, call>>

\* lines 493-500
Dispatch ==
    /\ pc = "dispatch"
    /\ IF frame.polygon = "polar_P2"
       THEN /\ frame' = [Logged(<<"WeierstrassForm_P2">>) EXCEPT
                           !.family = "WeierstrassForm_P2"]
            /\ pc' = "check"
            /\ UNCHANGED outcome
       ELSE IF frame.polygon = "polar_P1xP1"
       THEN /\ frame' = [Logged(<<"WeierstrassForm_P1xP1">>) EXCEPT
                           !.family = "WeierstrassForm_P1xP1"]
            /\ pc' = "check"
            /\ UNCHANGED outcome
       ELSE IF frame.polygon = "polar_P2_112"
       THEN /\ frame' = [Logged(<<"WeierstrassForm_P2_112">>) EXCEPT
                           !.family = "WeierstrassForm_P2_112"]
            /\ pc' = "check"
            /\ UNCHANGED outcome
       ELSE /\ frame' = frame
            /\ Raise(Error("NotReflexive"), NoCoeffs)
    /\ UNCHANGED <<ring, call>>

\* A fault of lines 757, 941 and 1075: the error of the check is recorded
\* and the routine goes on to its coefficients.
CheckedThenContinued(r, name) ==
    /\ frame' = [Logged(<<name>> \o [i \in 1..Len(r.checks) |-> "_check_homogeneity"])
                   EXCEPT !.checked = r.variables, !.checks = r.checks]
    /\ pc' = "coefficients"
    /\ outcome' = IF r.error = Ok THEN outcome ELSE Raised(r.error, NoCoeffs)
    /\ UNCHANGED <<ring, call>>

\* lines 757, 941 and 1075: the family's variable check
Checked(r, name) ==
    /\ frame' = [Logged(<<name>> \o [i \in 1..Len(r.checks) |-> "_check_homogeneity"])
                   EXCEPT !.checked = r.variables, !.checks = r.checks]
    /\ IF r.error = Ok
       THEN pc' = "coefficients" /\ UNCHANGED outcome
       ELSE Raise(r.error, NoCoeffs)
    /\ UNCHANGED <<ring, call>>

CheckPolynomial_P2 ==
    /\ pc = "check"
    /\ frame.family = "WeierstrassForm_P2"
    /\ Checked(_check_polynomial_P2(frame.polynomial, frame.variables),
               "_check_polynomial_P2")

CheckPolynomial_P1xP1 ==
    /\ pc = "check"
    /\ frame.family = "WeierstrassForm_P1xP1"
    /\ Checked(_check_polynomial_P1xP1(frame.polynomial, frame.variables),
               "_check_polynomial_P1xP1")

CheckPolynomial_P2_112 ==
    /\ pc = "check"
    /\ frame.family = "WeierstrassForm_P2_112"
    /\ Checked(_check_polynomial_P2_112(frame.polynomial, frame.variables),
               "_check_polynomial_P2_112")

\* WeierstrassForm returns (f, g): to its caller Discriminant or
\* j_invariant, or as the call's result.
ReturnPair(fg) ==
    IF call.fn \in {"Discriminant", "j_invariant"}
    THEN pc' = call.fn /\ UNCHANGED outcome
    ELSE Return("pair", fg)

\* line 758
TernaryCubic ==
    /\ pc = "coefficients"
    /\ frame.family = "WeierstrassForm_P2"
    /\ LET r == ternary_cubic(frame.polynomial, frame.checked[1],
                              frame.checked[2], frame.checked[3])
       IN  /\ frame' = [Logged(<<"ternary_cubic">>) EXCEPT !.c = r.a]
           /\ IF r.ok
              THEN pc' = "invariants" /\ UNCHANGED outcome
              ELSE Raise(Error("UnexpectedMonomials"), r.coeffs)
    /\ UNCHANGED <<ring, call>>

\* lines 759-762
CubicInvariants ==
    /\ pc = "invariants"
    /\ frame.family = "WeierstrassForm_P2"
    /\ LET fg == CubicWeierstrass(S_invariant(frame.c), T_invariant(frame.c))
       IN  /\ frame' = [Logged(<<"S_invariant", "T_invariant">>) EXCEPT !.fg = fg]
           /\ ReturnPair(fg)
    /\ UNCHANGED <<ring, call>>

\* lines 942 and 1076: the eliminated pair is (s, t) for the biquadric and
\* (y, t) for the weighted quartic
PartialDiscriminant ==
    /\ pc = "coefficients"
    /\ frame.family \in {"WeierstrassForm_P1xP1", "WeierstrassForm_P2_112"}
    /\ LET y0 == IF frame.family = "WeierstrassForm_P1xP1"
                 THEN frame.checked[3] ELSE frame.checked[2]
           r == _partial_discriminant(frame.polynomial, y0, frame.checked[4])
       IN  /\ frame' = [Logged(<<"_partial_discriminant", "_extract_coefficients">>)
                          EXCEPT !.c = r.c, !.delta = r.delta]
           /\ IF r.ok
              THEN pc' = "invariants" /\ UNCHANGED outcome
              ELSE Raise(Error("UnexpectedMonomials"), r.coeffs)
    /\ UNCHANGED <<ring, call>>

\* lines 943-946 and 1077-1080: the quartic is in (x, y) for the biquadric
\* and in (x, z) for the weighted quartic
BinaryQuartic ==
    /\ pc = "invariants"
    /\ frame.family \in {"WeierstrassForm_P1xP1", "WeierstrassForm_P2_112"}
    /\ LET x1 == IF frame.family = "WeierstrassForm_P1xP1"
                 THEN frame.checked[2] ELSE frame.checked[3]
           Q == binary_quartic(frame.delta, frame.checked[1], x1)
           fg == QuarticWeierstrass(Q)
       IN  IF Q.ok
           THEN /\ frame' = [Logged(<<"binary_quartic", "EisensteinD", "EisensteinE">>)
                               EXCEPT !.fg = fg]
                /\ ReturnPair(fg)
           ELSE /\ frame' = Logged(<<"binary_quartic">>)
                /\ Raise(Error("UnexpectedMonomials"), Q.coeffs)
    /\ UNCHANGED <<ring, call>>

\* line 182
ReturnDiscriminant ==
    /\ pc = "Discriminant"
    /\ Return("value", <<Discriminant(frame.fg[1], frame.fg[2])>>)
    /\ UNCHANGED <<ring, call, frame>>

\* lines 226-231
ReturnJInvariant ==
    /\ pc = "j_invariant"
    /\ outcome' = j_invariant(frame.fg[1], frame.fg[2])
    /\ pc' = "done"
    /\ UNCHANGED <<ring, call, frame>>

\* _check_homogeneity called on its own, lines 546-558
CheckHomogeneity ==
    /\ pc = "_check_homogeneity"
    /\ LET r == _check_homogeneity(call.polynomial, call.variables,
                                   call.helper.weights, call.helper.total_given,
                                   call.helper.total_weight)
       IN  IF r = Ok THEN Return("None", << >>) ELSE Raise(r, NoCoeffs)
    /\ UNCHANGED <<ring, call, frame>>

\* _extract_coefficients called on its own, lines 593-609
ExtractCoefficients ==
    /\ pc = "_extract_coefficients"
    /\ LET r == _extract_coefficients(call.polynomial, call.helper.monomials,
                                      call.variables)
       IN  IF r.ok THEN Return("tuple", r.result)
           ELSE Raise(Error("UnexpectedMonomials"), r.coeffs)
    /\ UNCHANGED <<ring, call, frame>>

Next ==
    \/ CheckHomogeneity
    \/ ExtractCoefficients
    \/ DelegateCompleteIntersection
    \/ DelegateCoveringMap
    \/ EnterCore
    \/ ExtractSupport
    \/ Classify
    \/ ReEmbed
    \/ Dispatch
    \/ CheckPolynomial_P2
    \/ CheckPolynomial_P1xP1
    \/ CheckPolynomial_P2_112
    \/ TernaryCubic
    \/ CubicInvariants
    \/ PartialDiscriminant
    \/ BinaryQuartic
    \/ ReturnDiscriminant
    \/ ReturnJInvariant

Spec == Init /\ [][Next]_vars

----------------------------------------------------------------------------
(* Properties.                                                             *)

Done(fn) == pc = "done" /\ call.fn = fn

\* The weighted degrees of the terms of the polynomial of a direct call of
\* _check_homogeneity.
Degrees ==
    {WeightOf(e, call.variables, call.helper.weights) : e \in DOMAIN call.polynomial}

\* C1: _check_homogeneity raises the not-homogeneous error naming weights
\* when two terms differ in weighted degree, and also when all terms share a
\* degree d, total_weight is given and d differs from it; it returns only if
\* all terms share one degree that equals total_weight when that is given.
C1_HomogeneityWithTotal ==
    Done("_check_homogeneity") =>
        LET h == call.helper
            mixed == Cardinality(Degrees) > 1
            wrong == Cardinality(Degrees) = 1 /\ h.total_given
                     /\ Degrees # {h.total_weight}
        IN  IF mixed \/ wrong
            THEN outcome = Raised(NotHomogeneous(h.weights), NoCoeffs)
            ELSE outcome.status = "returned"

\* 4*f^3 + 27*g^2 written out with products.
FourFCubed(f) == PScale(4, PMul(f, PMul(f, f)))
Delta(f, g) == PAdd(FourFCubed(f), PScale(27, PMul(g, g)))

\* The pair (f, g) that WeierstrassForm returned to Discriminant or
\* j_invariant.
GotPair == frame.fg # << >>
f_ == frame.fg[1]
g_ == frame.fg[2]

\* C2: for every pair (f, g) of the reduction j_invariant returns
\* 1728*4f^3/D when D = 4f^3 + 27g^2 is non-zero, otherwise +Infinity when f
\* is non-zero, otherwise it fails with the undefined-j-invariant error;
\* so +Infinity never comes with D non-zero nor a ring value with D zero.
C2_JInvariantOutcomes ==
    (Done("j_invariant") /\ GotPair) =>
        /\ outcome =
             IF Delta(f_, g_) # Zero
             THEN Returned("quotient", <<PScale(1728, FourFCubed(f_)), Delta(f_, g_)>>)
             ELSE IF f_ # Zero THEN Returned("Infinity", << >>)
             ELSE Raised(Error("UndefinedJInvariant"), NoCoeffs)
        /\ outcome.kind = "Infinity" => Delta(f_, g_) = Zero
        /\ outcome.kind = "quotient" => Delta(f_, g_) # Zero

\* The middle outcome: +Infinity for a nodal curve with f and g non-zero.
C2_Witness ==
    /\ Done("j_invariant") /\ GotPair
    /\ outcome.kind = "Infinity" /\ f_ # Zero /\ g_ # Zero

\* C3 as stated: j_invariant fails with the undefined-j-invariant error
\* exactly when f = 0 and g = 0, over every coefficient ring of
\* characteristic not 2 or 3.
C3_ErrorIffBothZero ==
    (Done("j_invariant") /\ GotPair) =>
        (outcome.kind = "UndefinedJInvariant" <=> (f_ = Zero /\ g_ = Zero))

\* C3 amended: j_invariant fails with the undefined-j-invariant error
\* exactly when f = 0 and 27*g^2 = 0; that is the case when f = g = 0, and
\* over an integral domain of characteristic not 3 only then.
C3_ErrorIffFZeroAndDeltaZero ==
    (Done("j_invariant") /\ GotPair) =>
        /\ outcome.kind = "UndefinedJInvariant"
             <=> (f_ = Zero /\ PScale(27, PMul(g_, g_)) = Zero)
        /\ (f_ = Zero /\ g_ = Zero) => outcome.kind = "UndefinedJInvariant"
        /\ (IsDomain /\ g_ # Zero) => outcome.kind # "UndefinedJInvariant"

\* The error with g non-zero, over Z/25.
C3_Witness ==
    /\ Done("j_invariant") /\ GotPair
    /\ outcome.kind = "UndefinedJInvariant" /\ g_ # Zero /\ ~IsDomain

\* C4: when WeierstrassForm returns (f, g), Discriminant returns exactly
\* 4*f^3 + 27*g^2; when WeierstrassForm fails, Discriminant fails with that
\* error and returns nothing; and j_invariant returns a quotient exactly
\* when that same quantity is non-zero, with it as the denominator.
C4_DiscriminantIsPostProcessing ==
    /\ Done("Discriminant") =>
         IF GotPair
         THEN outcome = Returned("value", <<Delta(f_, g_)>>)
         ELSE /\ outcome.status = "raised"
              /\ outcome.value = << >>
              /\ outcome.kind \in {"AssertionError", "NotReflexive",
                                   "UnexpectedMonomials"}
    /\ (Done("j_invariant") /\ GotPair) =>
         /\ outcome.kind = "quotient" <=> Discriminant(f_, g_) # Zero
         /\ outcome.kind = "quotient" => outcome.value[2] = Discriminant(f_, g_)

\* Discriminant returned a non-zero value built from non-zero f and g.
C4_Witness ==
    /\ Done("Discriminant") /\ GotPair
    /\ f_ # Zero /\ g_ # Zero /\ outcome.kind = "value"
    /\ outcome.value[1] # Zero

\* A direct call _extract_coefficients(p, ms, V): the exponents on the
\* named variables of the terms and of the requested monomials.
TermIndices == {Proj(e, call.variables) : e \in DOMAIN call.polynomial}
Requested(k) == Proj(call.helper.monomials[k], call.variables)
Unrequested ==
    TermIndices \ {Requested(k) : k \in 1..Len(call.helper.monomials)}

\* The terms of the polynomial whose exponents on the named variables are i.
TermsAt(i) ==
    LET D == {e \in DOMAIN call.polynomial : Proj(e, call.variables) = i}
    IN  [e \in D |-> call.polynomial[e]]

\* The terms matching monomials[k], each divided by monomials[k] (a term
\* the monomial does not divide leaves nothing under //).
QuotientAt(k) ==
    LET m == call.helper.monomials[k]
        D == {e \in DOMAIN TermsAt(Requested(k)) : EDivides(m, e)}
    IN  [d \in {ESub(e, m) : e \in D} |-> call.polynomial[EAdd(d, m)]]

FirstRequest(k) == \A j \in 1..(k - 1) : Requested(j) # Requested(k)

LeftoversListed ==
    /\ outcome.status = "raised"
    /\ outcome.kind = "UnexpectedMonomials"
    /\ DOMAIN outcome.coeffs = Unrequested
    /\ \A i \in Unrequested : outcome.coeffs[i] = TermsAt(i)

\* C5 as stated: _extract_coefficients returns one entry per requested
\* monomial in request order, entry k being the sum of the terms whose
\* exponents on the named variables are those of monomials[k], divided by
\* monomials[k] (zero when there is none); it fails with the
\* unexpected-monomials error listing the leftover terms exactly when some
\* term matches no requested monomial.
C5_EveryEntryIsTheMatchingSum ==
    Done("_extract_coefficients") =>
        IF Unrequested # {} THEN LeftoversListed
        ELSE outcome = Returned("tuple",
                 [k \in 1..Len(call.helper.monomials) |-> QuotientAt(k)])

\* C5 amended: the same, except that entry k is that sum only for the first
\* request of an exponent vector; a monomial requested again gets zero.
C5_FirstRequestGetsTheMatchingSum ==
    Done("_extract_coefficients") =>
        IF Unrequested # {} THEN LeftoversListed
        ELSE outcome = Returned("tuple",
                 [k \in 1..Len(call.helper.monomials) |->
                     IF FirstRequest(k) THEN QuotientAt(k) ELSE Zero])

\* A tuple returned with a non-zero entry, a zero entry for an absent
\* monomial and a zero entry for a repeated one.
C5_Witness ==
    /\ Done("_extract_coefficients") /\ outcome.kind = "tuple"
    /\ \E j, k, l \in 1..Len(outcome.value) :
          /\ outcome.value[j] # Zero
          /\ FirstRequest(k) /\ outcome.value[k] = Zero
          /\ ~FirstRequest(l) /\ QuotientAt(l) # Zero

\* The variables a family routine was given: the list, or the variables of
\* the polynomial when the list is None.
GivenVariables ==
    IF frame.variables = NoVars THEN PolyVariables(frame.polynomial)
    ELSE frame.variables

FamilyRan == frame.family # "" /\ frame.checked # << >>

\* Some term of the polynomial is outside the family's basis in (x, y).
OutsideBasis ==
    \E e \in DOMAIN frame.polynomial :
        XY(e[GivenVariables[1]], e[GivenVariables[2]]) \notin Basis(frame.family)

\* C6: a family routine called (here with the two inhomogeneous variables)
\* on a polynomial with a monomial outside the family's basis fails with the
\* unexpected-monomials error and returns no pair, also when some basis
\* coefficients are zero.
C6_BasisClosure ==
    (pc = "done" /\ call.fn \in FamilyFns /\ Len(GivenVariables) = 2
        /\ OutsideBasis)
    => (outcome.status = "raised" /\ outcome.kind = "UnexpectedMonomials")

Accepted(family) ==
    IF family = "WeierstrassForm_P2" THEN {2, 3} ELSE {2, 4}

\* C7: a family's variable check fails with the wrong-variable-count error
\* exactly when the number of variables given (those of the polynomial when
\* the list is None) is not one of the family's two accepted counts.
C7_WrongCountIffNotAccepted ==
    (pc = "done" /\ frame.family # "") =>
        (outcome.kind = "TooManyOrFewVariables"
            <=> Len(GivenVariables) \notin Accepted(frame.family))

\* The error for a polynomial in one variable with variables = None, and
\* for a list of three variables given to a four-variable family.
C7_Witness ==
    /\ pc = "done" /\ outcome.kind = "TooManyOrFewVariables"
    /\ \/ call.variables = NoVars /\ Len(GivenVariables) = 1
       \/ Len(call.variables) = 3 /\ frame.family = "WeierstrassForm_P2_112"

NonePositions(family, v) ==
    IF family = "WeierstrassForm_P2" THEN <<v[1], v[2], None>>
    ELSE IF family = "WeierstrassForm_P1xP1" THEN <<v[1], None, v[2], None>>
    ELSE <<v[1], v[2], None, None>>

\* C8: a family routine given exactly two variables does not call the
\* homogeneity validator and so never fails as not homogeneous; the missing
\* coordinates are None at the family's fixed positions.
C8_TwoVariableFallback ==
    (FamilyRan /\ Len(GivenVariables) = 2) =>
        /\ frame.checks = << >>
        /\ \A i \in 1..Len(frame.log) : frame.log[i] # "_check_homogeneity"
        /\ outcome.kind # "NotHomogeneous"
        /\ frame.checked = NonePositions(frame.family, GivenVariables)

\* A pair returned for a polynomial that is not homogeneous, from two
\* variables given in the order (y, x).
C8_Witness ==
    /\ pc = "done" /\ call.fn = "WeierstrassForm_P1xP1"
    /\ call.variables = <<2, 1>> /\ outcome.kind = "pair"
    /\ frame.checked = <<2, None, 1, None>>

\* The single-polynomial path of WeierstrassForm.
CoreCall ==
    call.fn = "WeierstrassForm" /\ ~call.is_list /\ ~call.transformation

FamilyNames ==
    FamilyFns \cup {"_check_polynomial_P2", "_check_polynomial_P1xP1",
                    "_check_polynomial_P2_112"}

\* C9: WeierstrassForm fails with the one not-reflexive error both when the
\* Newton polytope has affine dimension above 2 and when the classifier
\* finds no embedding; no family routine is called and no pair returned.
C9_OneNotReflexiveError ==
    (pc = "done" /\ CoreCall) =>
        LET points == DOMAIN frame.p_dict
            n == Len(frame.variables)
        IN  (\/ ~AffineDimensionAtMost2(points, n)
             \/ embed_in_reflexive_polytope(points, n) = {})
            => /\ outcome = Raised(Error("NotReflexive"), NoCoeffs)
               /\ frame.fg = << >>
               /\ \A i \in 1..Len(frame.log) : frame.log[i] \notin FamilyNames

CoreNames ==
    FamilyNames \cup {"Newton_polytope_vars_coeffs", "affine_dimension",
                      "embed_in_reflexive_polytope"}

LogHas(names) == \E i \in 1..Len(frame.log) : frame.log[i] \in names

\* C10: WeierstrassForm hands a list or tuple to the complete-intersection
\* collaborator with variables and transformation, whatever transformation
\* is, and runs nothing of the core; otherwise with transformation true it
\* hands the call to the covering-map builder and computes no pair; only
\* when neither holds do support extraction, classification and dispatch
\* run.
C10_DelegationPrecedence ==
    call.fn = "WeierstrassForm" =>
        /\ call.is_list =>
             /\ ~LogHas(CoreNames \cup {"WeierstrassMap"})
             /\ frame.p_dict = << >> /\ frame.fg = << >>
             /\ pc = "done" =>
                  outcome = Returned("WeierstrassForm2",
                                     <<call.variables, call.transformation>>)
        /\ (~call.is_list /\ call.transformation) =>
             /\ ~LogHas(CoreNames \cup {"WeierstrassForm2"})
             /\ frame.p_dict = << >> /\ frame.fg = << >>
             /\ pc = "done" =>
                  outcome = Returned("WeierstrassMap", <<call.variables>>)
        /\ (~call.is_list /\ ~call.transformation) =>
             /\ ~LogHas({"WeierstrassForm2", "WeierstrassMap"})
             /\ pc = "done" =>
                  /\ frame.log[2] = "Newton_polytope_vars_coeffs"
                  /\ outcome.kind \notin {"WeierstrassForm2", "WeierstrassMap"}

\* A list given with transformation true went to the complete-intersection
\* collaborator.
C10_Witness ==
    /\ pc = "done" /\ call.fn = "WeierstrassForm"
    /\ call.is_list /\ call.transformation
    /\ outcome.kind = "WeierstrassForm2"

\* The stages of a reduction run, by the position of the call: Start 0,
\* SupportExtracted 1, Classified 2, Validated 3, CoefficientsExtracted 4,
\* InvariantsComputed 5 (the pair is back in Discriminant or j_invariant),
\* Done or a failure 6.
Stage(at) ==
    IF at \in {"WeierstrassForm", "Newton_polytope_vars_coeffs"} THEN 0
    ELSE IF at = "classify" THEN 1
    ELSE IF at \in {"embed", "dispatch", "check"} THEN 2
    ELSE IF at = "coefficients" THEN 3
    ELSE IF at = "invariants" THEN 4
    ELSE IF at \in {"Discriminant", "j_invariant"} THEN 5
    ELSE 6

ReductionRun ==
    /\ call.fn \in TopFns \cup FamilyFns
    /\ ~call.is_list /\ ~call.transformation

ExtractionNames ==
    {"ternary_cubic", "_partial_discriminant", "_extract_coefficients",
     "binary_quartic", "S_invariant", "T_invariant", "EisensteinD",
     "EisensteinE"}

\* One step of a reduction run, in the order of the stages.
StageStep ==
    /\ pc # "done" /\ outcome.status = "none"
    /\ Stage(pc') >= Stage(pc)
    /\ pc' # "done" => (Stage(pc') <= Stage(pc) + 1 /\ outcome'.status = "none")
    /\ pc' = "done" => outcome'.status \in {"returned", "raised"}
    /\ outcome'.status = "returned" =>
          /\ frame'.checked # << >> /\ frame'.c # << >> /\ frame'.fg # << >>
          /\ call.fn \in TopFns => (frame'.p_dict # << >> /\ frame'.polygon # "")
          /\ call.fn \notin {"Discriminant", "j_invariant"} =>
                outcome' = Returned("pair", frame'.fg)
    /\ outcome'.kind \in {"NotHomogeneous", "TooManyOrFewVariables"} =>
          /\ Stage(pc) = 2
          /\ frame'.c = << >> /\ frame'.fg = << >>
          /\ \A i \in 1..Len(frame'.log) : frame'.log[i] \notin ExtractionNames

\* C11: a reduction run passes the stages Start, SupportExtracted,
\* Classified, Validated, CoefficientsExtracted, InvariantsComputed, Done in
\* that order without going back; it ends in Done with a pair or in one
\* failure, nothing runs after a failure (a failed homogeneity or
\* variable-count check leaves no coefficient extracted and no invariant
\* computed) and nothing is retried.
C11_StagesInOrder == [][ReductionRun => StageStep]_vars

\* A run that failed its homogeneity check: it is over, with nothing
\* extracted.
C11_Witness ==
    /\ ReductionRun /\ pc = "done"
    /\ outcome.kind = "NotHomogeneous" /\ frame.c = << >>
    /\ ~ENABLED Next

\* What the call must give as a function of its arguments and, for a call
\* that reached the classifier and got an answer, of that answer.
Answer == [polygon |-> frame.polygon, embedding |-> frame.embedding]

FunctionOfTheArguments ==
    IF call.fn \in FamilyFns
    THEN Family(call.fn, call.polynomial, call.variables)
    ELSE IF call.fn = "_check_homogeneity"
    THEN LET r == _check_homogeneity(call.polynomial, call.variables,
                                     call.helper.weights, call.helper.total_given,
                                     call.helper.total_weight)
         IN  IF r = Ok THEN Returned("None", << >>) ELSE Raised(r, NoCoeffs)
    ELSE IF call.fn = "_extract_coefficients"
    THEN LET r == _extract_coefficients(call.polynomial, call.helper.monomials,
                                        call.variables)
         IN  IF r.ok THEN Returned("tuple", r.result)
             ELSE Raised(UnexpectedMonomials, r.coeffs)
    ELSE IF call.is_list
    THEN Returned("WeierstrassForm2", <<call.variables, call.transformation>>)
    ELSE IF call.transformation
    THEN Returned("WeierstrassMap", <<call.variables>>)
    ELSE LET vs == IF call.variables = NoVars
                   THEN PolyVariables(call.polynomial) ELSE call.variables
             points == DOMAIN Newton_polytope_vars_coeffs(call.polynomial, vs)
         IN  IF ~AffineDimensionAtMost2(points, Len(vs))
             THEN Raised(Error("AssertionError"), NoCoeffs)
             ELSE IF embed_in_reflexive_polytope(points, Len(vs)) = {}
             THEN Raised(Error("NotReflexive"), NoCoeffs)
             ELSE PostProcess(call.fn,
                      WeierstrassForm(call.polynomial, call.variables, Answer))

RECURSIVE MultipliedOut(_, _, _)
MultipliedOut(keys, mapping, V) ==
    IF keys = {} THEN Zero
    ELSE LET k == CHOOSE k \in keys : TRUE
         IN  PAdd(PMul(mapping[k], Mono(Lift(k, V))),
                  MultipliedOut(keys \ {k}, mapping, V))

\* The mapping a run has just extracted, of P = frame.polynomial in
\* V = frame.variables.
Extracted == call.fn \in TopFns /\ pc = "classify"

\* C13: the mapping returned by Newton_polytope_vars_coeffs(P, V) has one key
\* per distinct projection of P's exponent vectors onto V, every key is a
\* tuple of non-negative integers of length |V|, every coefficient is free of
\* the variables of V, and the sum of coefficient * prod(V[i]^key[i]) is P.
C13_SupportRoundTrip ==
    Extracted =>
        LET P == frame.polynomial
            V == frame.variables
            mapping == frame.p_dict
        IN  /\ DOMAIN mapping = {Proj(e, V) : e \in DOMAIN P}
            /\ \A k \in DOMAIN mapping :
                  /\ Len(k) = Len(V)
                  /\ \A i \in 1..Len(V) : k[i] \in Nat
                  /\ \A e \in DOMAIN mapping[k] :
                        \A i \in 1..Len(V) : e[V[i]] = 0
            /\ MultipliedOut(DOMAIN mapping, mapping, V) = P

\* A mapping in (x, y) of a polynomial with more variables, two of whose
\* terms have the same projection.
C13_Witness ==
    /\ Extracted
    /\ Len(frame.variables) = 2
    /\ \E k \in DOMAIN frame.p_dict :
          /\ Cardinality(DOMAIN frame.p_dict[k]) > 1
          /\ \E e \in DOMAIN frame.p_dict[k] : e # E0

\* polynomial(g = 1 for g in ones): the terms of the polynomial with the
\* variables of ones set to 1, like terms added.
RECURSIVE SetToOneLoop(_, _, _)
SetToOneLoop(terms, polynomial, ones) ==
    IF terms = {} THEN Zero
    ELSE LET e == CHOOSE e \in terms : TRUE
             d == [g \in 1..NG |-> IF g \in ones THEN 0 ELSE e[g]]
         IN  PAdd(d :> polynomial[e],
                  SetToOneLoop(terms \ {e}, polynomial, ones))

SetToOne(polynomial, ones) == SetToOneLoop(DOMAIN polynomial, polynomial, ones)

\* The positions in a family's full variable list of its two affine
\* variables: [x0,x1,y0,y1] -> [x0,y0], [x,y,z,t] -> [x,y], [x,y,z] -> [x,y].
AffinePositions(fn) == IF fn = "WeierstrassForm_P1xP1" THEN <<1, 3>> ELSE <<1, 2>>

FullLength(fn) == IF fn = "WeierstrassForm_P2" THEN 3 ELSE 4

\* A finished family call with the full homogeneous variable list, whose
\* polynomial passed the validation of the routine.
PassedValidationHomogeneous ==
    /\ pc = "done" /\ call.fn \in FamilyFns
    /\ call.variables # NoVars /\ Len(call.variables) = FullLength(call.fn)
    /\ outcome.kind \notin {"NotHomogeneous", "TooManyOrFewVariables"}

\* What the same routine gives for the dehomogenized polynomial in the two
\* affine variables.
Dehomogenized ==
    LET affine == [i \in 1..2 |-> call.variables[AffinePositions(call.fn)[i]]]
        ones == {call.variables[i] : i \in 1..Len(call.variables)}
                    \ {affine[1], affine[2]}
    IN  Family(call.fn, SetToOne(call.polynomial, ones), affine)

SameResult(a, b) ==
    /\ a.status = b.status
    /\ a.status = "returned" => a.value = b.value

\* C14: a family routine gives for a polynomial in its full homogeneous
\* variable list that passes validation the same (f, g) as for the polynomial
\* with the extra variables set to 1 and the two affine variables listed.
C14_DehomogenizationIndependence ==
    PassedValidationHomogeneous => SameResult(outcome, Dehomogenized)

\* The variables a finished family call worked with.
EffectiveVariables ==
    IF call.variables = NoVars THEN PolyVariables(call.polynomial)
    ELSE call.variables

AllOfWeight(weights, total) ==
    \A e \in DOMAIN call.polynomial :
        WeightOf(e, call.variables, weights) = total

\* The call's polynomial is a biquadric without x1^2*y1^2 (for
\* WeierstrassForm_P1xP1) or a weighted quartic without x^4 (for
\* WeierstrassForm_P2_112): in the two affine variables, or in the four
\* homogeneous variables [x0,x1,y0,y1] resp. [x,y,z,t].
AlsoACubic ==
    LET V == EffectiveVariables
    IN  IF Len(V) = 2
        THEN \A e \in DOMAIN call.polynomial :
                XY(e[V[1]], e[V[2]]) \in Basis(call.fn) \cap CubicBasis
        ELSE IF Len(V) # 4 \/ call.variables = NoVars THEN FALSE
        ELSE IF call.fn = "WeierstrassForm_P1xP1"
        THEN /\ AllOfWeight(<<1, 1, 0, 0>>, 2) /\ AllOfWeight(<<0, 0, 1, 1>>, 2)
             /\ \A e \in DOMAIN call.polynomial : ~(e[V[2]] = 2 /\ e[V[4]] = 2)
        ELSE /\ AllOfWeight(<<1, 0, 1, -2>>, 0) /\ AllOfWeight(<<0, 1, 0, 1>>, 2)
             /\ \A e \in DOMAIN call.polynomial : e[V[1]] # 4

\* WeierstrassForm_P2 on the dehomogenized polynomial: biquadric(x0=1, y0=1)
\* in (x1, y1), quartic(z=1, t=1) in (x, y).
CubicPath ==
    LET V == EffectiveVariables
    IN  IF Len(V) = 2 THEN WeierstrassForm_P2(call.polynomial, V)
        ELSE IF call.fn = "WeierstrassForm_P1xP1"
        THEN WeierstrassForm_P2(SetToOne(call.polynomial, {V[1], V[3]}),
                                <<V[2], V[4]>>)
        ELSE WeierstrassForm_P2(SetToOne(call.polynomial, {V[3], V[4]}),
                                <<V[1], V[2]>>)

QuarticPathDone ==
    /\ pc = "done"
    /\ call.fn \in {"WeierstrassForm_P1xP1", "WeierstrassForm_P2_112"}
    /\ AlsoACubic

\* C15: for a biquadric without x1^2*y1^2 and for a weighted quartic without
\* x^4, WeierstrassForm_P1xP1 resp. WeierstrassForm_P2_112 and
\* WeierstrassForm_P2 on the dehomogenized polynomial both succeed and return
\* the same (f, g).
C15_CrossFamilyAgreement ==
    QuarticPathDone =>
        /\ outcome.status = "returned"
        /\ CubicPath.status = "returned"
        /\ outcome.value = CubicPath.value

\* The two paths agreed on a smooth curve (4f^3 + 27g^2 a unit) in each of
\* the two families; here for the biquadric in four variables.
C15_Witness ==
    /\ QuarticPathDone /\ call.fn = "WeierstrassForm_P1xP1"
    /\ Len(call.variables) = 4
    /\ outcome.status = "returned" /\ outcome.value = CubicPath.value
    /\ outcome.value[1] # Zero /\ outcome.value[2] # Zero

IsUnit(k) == \E i \in 1..(ring - 1) : (i * F(k)) % ring = 1

\* The non-zero units L of the coefficient ring among the scalars tried.
Scalars == {L \in 2..MaxCoef : IsUnit(L)}

FamilyDone == pc = "done" /\ call.fn \in FamilyFns

\* C16: when a family routine returns (f, g) for p, it returns
\* (L^4 * f, L^6 * g) for L*p, for every non-zero unit L of the coefficient
\* ring; it succeeds on L*p exactly when it succeeds on p.
C16_Scaling ==
    FamilyDone =>
        \A L \in Scalars :
            LET scaled == Family(call.fn, PScale(L, call.polynomial),
                                 call.variables)
            IN  /\ scaled.status = outcome.status
                /\ outcome.status = "returned" =>
                      scaled.value = <<PScale(L * L * L * L, outcome.value[1]),
                                       PScale(L * L * L * L * L * L,
                                              outcome.value[2])>>

\* A family routine returned (f, g) with f and g non-zero, and L^4 and L^6
\* are not 1 for the scalar L = 2.
C16_Witness ==
    /\ FamilyDone /\ outcome.status = "returned"
    /\ outcome.value[1] # Zero /\ outcome.value[2] # Zero
    /\ 2 \in Scalars /\ F(2 * 2 * 2 * 2) # 1 /\ F(2 * 2 * 2 * 2 * 2 * 2) # 1
    /\ call.fn = "WeierstrassForm_P2_112"

\* The monomials m tried: each variable of interest, and the product of the
\* first two, as exponent tuples.
MonomialsOfInterest(V) ==
    {XPow(V[i], 1) : i \in 1..Len(V)} \cup {EAdd(XPow(V[1], 1), XPow(V[2], 1))}

Translate(k, t) == [i \in 1..Len(k) |-> k[i] + t[i]]

\* The answer of the classifier for the support translated by t that
\* corresponds to its answer r.
TranslatedAnswer(r, t) ==
    [polygon |-> r.polygon,
     embedding |-> [k \in {Translate(e, t) : e \in DOMAIN r.embedding} |->
                      r.embedding[Translate(k, [i \in 1..Len(t) |-> -t[i]])]]]

\* The classifier has the same answers for the support of m*p as for the
\* support of p, up to the translation.
SameFamilies(points, V, m) ==
    LET t == Proj(m, V)
        moved == {Translate(e, t) : e \in points}
    IN  /\ AffineDimensionAtMost2(moved, Len(V))
            = AffineDimensionAtMost2(points, Len(V))
        /\ embed_in_reflexive_polytope(moved, Len(V))
            = {TranslatedAnswer(r, t) :
                  r \in embed_in_reflexive_polytope(points, Len(V))}

\* m*p has the embedded polynomial, the family and the result of p.
SameReduction(m) ==
    LET V == IF call.variables = NoVars THEN PolyVariables(call.polynomial)
             ELSE call.variables
        mp == PMul(Mono(m), call.polynomial)
        answer == TranslatedAnswer(Answer, Proj(m, V))
    IN  /\ Newton_polygon_embedded(mp, V, answer)
            = Newton_polygon_embedded(call.polynomial, V, Answer)
        /\ WeierstrassForm(mp, call.variables, answer) = outcome

\* C17: for a polynomial p that WeierstrassForm accepts and a monomial m in
\* the variables of interest, WeierstrassForm(m*p) returns the (f, g) of
\* WeierstrassForm(p): the translated support has the same family and the
\* same embedded polynomial.
C17_TranslationByAMonomial ==
    /\ (CoreCall /\ pc = "classify") =>
          \A m \in MonomialsOfInterest(frame.variables) :
              SameFamilies(DOMAIN frame.p_dict, frame.variables, m)
    /\ (CoreCall /\ pc = "done" /\ outcome.kind = "pair") =>
          \A m \in MonomialsOfInterest(
                      IF call.variables = NoVars
                      THEN PolyVariables(call.polynomial) ELSE call.variables) :
              SameReduction(m)

\* WeierstrassForm(x^3 + y^3 + z^3) returned (0, -27/4), and so does
\* WeierstrassForm(x * (x^3 + y^3 + z^3)), lines 91-95.
C17_Witness ==
    /\ CoreCall /\ pc = "done" /\ call.polynomial = Fermat3
    /\ call.variables = NoVars
    /\ outcome.kind = "pair"
    /\ outcome.value = <<Zero, Const(Frac(-27, 4))>>
    /\ WeierstrassForm(PMul(Mono(XPow(1, 1)), Fermat3), NoVars,
                       TranslatedAnswer(Answer, <<1, 0, 0>>)) = outcome

\* C18: no operation mutates its inputs: at every step of every call the
\* caller's polynomial, variable list and other arguments (and the
\* coefficient ring) stay what they were; what a call re-embeds, shortens or
\* pops from belongs to its own frame.
C18_InputsUnchanged ==
    [][call' = call /\ ring' = ring]_vars

\* A WeierstrassForm call with a list of three variables returned a pair
\* after working on a re-embedded polynomial and a 2-element variable tuple
\* of its own.
C18_Witness ==
    /\ CoreCall /\ pc = "done" /\ outcome.kind = "pair"
    /\ call.variables = <<1, 2, 3>> /\ Len(frame.variables) = 2
    /\ frame.polynomial # call.polynomial
    /\ frame.p_dict # << >>

\* The coefficient of prod(V[i]^k[i]) in the polynomial p read as a
\* polynomial in the variables V that are given (not None).
CoefficientOf(p, V, k) ==
    LET given == {i \in 1..Len(V) : V[i] # None}
        terms == {e \in DOMAIN p : \A i \in given : e[V[i]] = k[i]}
    IN  [d \in {[g \in 1..NG |-> IF \E i \in given : V[i] = g THEN 0 ELSE e[g]] :
                   e \in terms} |->
            p[CHOOSE e \in terms :
                 \A g \in 1..NG : (\A i \in given : V[i] # g) => e[g] = d[g]]]

\* The pair (-I/4, -J/4) of the polynomial p, with (y0, y1) eliminated and
\* the quartic taken in (x0, x1), written out as the claim states it.
QuarticFormula(p, y0, y1, x0, x1) ==
    LET c2 == CoefficientOf(p, <<y0, y1>>, <<0, 2>>)
        c1 == CoefficientOf(p, <<y0, y1>>, <<1, 1>>)
        c0 == CoefficientOf(p, <<y0, y1>>, <<2, 0>>)
        D == PSub(PMul(c1, c1), PScale(4, PMul(c0, c2)))
        e0 == CoefficientOf(D, <<x0, x1>>, <<4, 0>>)
        e1 == PScale(Frac(1, 4), CoefficientOf(D, <<x0, x1>>, <<3, 1>>))
        e2 == PScale(Frac(1, 6), CoefficientOf(D, <<x0, x1>>, <<2, 2>>))
        e3 == PScale(Frac(1, 4), CoefficientOf(D, <<x0, x1>>, <<1, 3>>))
        e4 == CoefficientOf(D, <<x0, x1>>, <<0, 4>>)
        I == PAdd(PSub(PMul(e0, e4), PScale(4, PMul(e1, e3))),
                  PScale(3, PMul(e2, e2)))
        J == PSub(PAdd(PSub(PSub(PMul(e0, PMul(e2, e4)),
                                 PMul(e0, PMul(e3, e3))),
                            PMul(e1, PMul(e1, e4))),
                       PScale(2, PMul(e1, PMul(e2, e3)))),
                  PMul(e2, PMul(e2, e2)))
    IN  <<PScale(Frac(-1, 4), I), PScale(Frac(-1, 4), J)>>

QuarticFamilyReturned ==
    /\ pc = "done" /\ outcome.kind = "pair"
    /\ call.fn \in {"WeierstrassForm_P1xP1", "WeierstrassForm_P2_112"}

\* C19: the biquadric and the weighted-quartic routines return
\* (-I/4, -J/4) for D = c1^2 - 4*c0*c2, the coefficients c2, c1, c0 being
\* those of y1^2, y0*y1, y0^2 (of 1, y0, y0^2 without y1) in the eliminated
\* pair, (s, t) resp. (y, t), and I, J the invariants of D as a quartic in the
\* remaining pair; x^4+y^2+1 gives (-4, 0) and x^2*y^2+x^2+y^2+1 gives
\* (-16/3, 128/27).
C19_QuarticPathFormula ==
    QuarticFamilyReturned =>
        LET v == frame.checked
        IN  /\ outcome.value =
                  IF call.fn = "WeierstrassForm_P1xP1"
                  THEN QuarticFormula(call.polynomial, v[3], v[4], v[1], v[2])
                  ELSE QuarticFormula(call.polynomial, v[2], v[4], v[1], v[3])
            /\ (call.polynomial = Quartic2 /\ v = <<1, 2, None, None>>) =>
                  outcome.value = <<Const(-4), Zero>>
            /\ (call.polynomial = Biquadric2 /\ v = <<1, None, 2, None>>) =>
                  outcome.value = <<Const(Frac(-16, 3)), Const(Frac(128, 27))>>

\* The weighted-quartic routine returned (-4, 0) for x^4 + y^2 + 1.
C19_Witness ==
    /\ QuarticFamilyReturned /\ call.fn = "WeierstrassForm_P2_112"
    /\ call.polynomial = Quartic2 /\ frame.checked = <<1, 2, None, None>>
    /\ outcome.value = <<Const(-4), Zero>>

\* The top-level path: WeierstrassForm (also through Discriminant and
\* j_invariant) with a single polynomial and transformation false.
TopLevelPath == call.fn \in TopFns /\ ~call.is_list /\ ~call.transformation

CallersVariables ==
    IF call.variables = NoVars THEN PolyVariables(call.polynomial)
    ELSE call.variables

\* The dispatch of lines 493-500, in its order.
DispatchOrder ==
    << <<"polar_P2", "WeierstrassForm_P2">>,
       <<"polar_P1xP1", "WeierstrassForm_P1xP1">>,
       <<"polar_P2_112", "WeierstrassForm_P2_112">> >>

FirstInOrder(polygon) ==
    LET i == CHOOSE i \in 1..3 :
                 /\ DispatchOrder[i][1] = polygon
                 /\ \A j \in 1..(i - 1) : DispatchOrder[j][1] # polygon
    IN  DispatchOrder[i][2]

FamilyRoutinesCalled == {i \in 1..Len(frame.log) : frame.log[i] \in FamilyFns}

\* C20: on the top-level path the family routine gets the re-embedded
\* polynomial and the first two entries of the variable list, whatever the
\* list's length; the homogeneity validator is never invoked, the run never
\* ends not-homogeneous or with the wrong variable count, and a successful
\* run called exactly one family routine, the first in the order cubic,
\* biquadric, weighted quartic whose polygon was found.
C20_TopLevelPath ==
    TopLevelPath =>
        /\ ~LogHas({"_check_homogeneity"}) /\ frame.checks = << >>
        /\ outcome.kind \notin {"NotHomogeneous", "TooManyOrFewVariables"}
        /\ Cardinality(FamilyRoutinesCalled) <= 1
        /\ FamilyRoutinesCalled # {} =>
              /\ frame.variables = SubSeq(CallersVariables, 1, 2)
              /\ frame.polynomial = EmbeddedPolynomial(frame.p_dict,
                                        frame.embedding, CallersVariables)
              /\ frame.polygon \in Polygons
              /\ frame.family = FirstInOrder(frame.polygon)
              /\ \A i \in FamilyRoutinesCalled : frame.log[i] = frame.family
        /\ (pc = "done" /\ outcome.status = "returned") =>
              Cardinality(FamilyRoutinesCalled) = 1

\* WeierstrassForm with a list of three variables returned a pair from the
\* biquadric or the weighted-quartic routine, called with two variables.
C20_Witness ==
    /\ TopLevelPath /\ pc = "done" /\ outcome.status = "returned"
    /\ Len(CallersVariables) = 3 /\ Len(frame.variables) = 2
    /\ frame.family # "WeierstrassForm_P2"
    /\ Cardinality(FamilyRoutinesCalled) = 1

\* The two weight vectors and total weights of a four-variable family, in
\* the order of lines 809-810 and 994-995.
Gradings(fn) ==
    IF fn = "WeierstrassForm_P1xP1"
    THEN << <<(<<1, 1, 0, 0>>), 2>>, <<(<<0, 0, 1, 1>>), 2>> >>
    ELSE << <<(<<1, 0, 1, -2>>), 0>>, <<(<<0, 1, 0, 1>>), 2>> >>

\* A direct call of a four-variable family with four variables, past its
\* variable check.
FourVariablesChecked ==
    /\ call.fn \in {"WeierstrassForm_P1xP1", "WeierstrassForm_P2_112"}
    /\ Len(EffectiveVariables) = 4
    /\ pc \in {"coefficients", "invariants", "done"}

\* The polynomial is not homogeneous of total weight g[2] for the weight
\* vector g[1]: some term has another weighted degree.
ViolatesGrading(g) ==
    \E e \in DOMAIN call.polynomial :
        WeightOf(e, EffectiveVariables, g[1]) # g[2]

\* Some extraction is in the call log at or before position n.
ExtractionBefore(n) ==
    \E i \in 1..n : frame.log[i] \in ExtractionNames

\* The checks were made in their order: the first vector first, the second
\* only after the first passed, and both before any extraction.
ChecksInOrder ==
    LET g == Gradings(call.fn)
        V == EffectiveVariables
    IN  /\ frame.checks \in {<<g[1][1]>>, <<g[1][1], g[2][1]>>}
        /\ Len(frame.checks) = 2 <=>
              _check_homogeneity(call.polynomial, V, g[1][1], TRUE, g[1][2]) = Ok
        /\ \A n \in 1..Len(frame.log) :
              ExtractionBefore(n) =>
                  Cardinality({i \in 1..n : frame.log[i] = "_check_homogeneity"}) = 2

\* C21: the biquadric check tests weights (1,1,0,0) before (0,0,1,1) and the
\* weighted quartic check (1,0,1,-2) before (0,1,0,1); the second vector is
\* tested only if the first passes, a polynomial that violates both gradings
\* fails with the error naming the first weight vector, and both checks
\* complete before the partial discriminant or any extraction starts.
C21_HomogeneityChecksInOrder ==
    FourVariablesChecked =>
        /\ ChecksInOrder
        /\ (ViolatesGrading(Gradings(call.fn)[1])
                /\ ViolatesGrading(Gradings(call.fn)[2])) =>
              /\ pc = "done"
              /\ outcome = Raised(NotHomogeneous(Gradings(call.fn)[1][1]), NoCoeffs)

=============================================================================
